---- MODULE Spec2Model ----
(***************************************************************************)
(* Model of the avi-backend evaluation orchestration code:                 *)
(*   - the per-candidate question progress kept in the Mongo collection    *)
(*     "interviews" (src/app.py: /question, /progress/reset and the        *)
(*     persistence step of /generate-feedback),                            *)
(*   - the domain-answer evaluation chain (src/app.py: /evaluate_domain,   *)
(*     src/modules/nlp/domain_evaluator.py, src/utils/llm_client.py),      *)
(*   - the feedback-generation chain with its score fusion (src/app.py:    *)
(*     /generate-feedback, src/modules/feedback/feedback_generator.py)     *)
(*     and the dashboard read /final_feedback.                             *)
(*                                                                         *)
(* Every request is one process.  A handler is cut into steps at its store *)
(* operations: the code between two store operations is local to the       *)
(* request and is folded into the step of the store operation before it.   *)
(* A single pymongo call (find_one, insert_one, update_one) is one atomic  *)
(* step.                                                                   *)
(***************************************************************************)
EXTENDS Integers, Sequences, FiniteSets, TLC

\* ------------------------------------------------------------------ bounds
\* Number of requests (each process issues one request).
NumRequests == 3
\* Largest question-set length tried (the set is fixed during a behaviour).
MaxQuestions == 2
\* Longest model reply, in tokens.
MaxTextLen == 4
\* Longest reply to a feedback prompt, in tokens.
MaxGenTextLen == 3

Procs == 1..NumRequests

\* Session keys after normalisation; NoKey stands for a request in which
\* email, interview_id or domain is empty after trimming.
Keys == {"k1", "k2"}
NoKey == "nokey"

\* The per-question results a /generate-feedback request may persist.
PerQ == {"r1", "r2"}

\* A document field is <<>> when the document does not have it and <<v>>
\* when it has the value v.
Absent == <<>>
Some(v) == <<v>>

VARIABLES
  questions,   \* the normalised question list of the domain (fixed)
  store,       \* the collection: documents in insertion (natural) order
  pc,          \* per request: position in its handler
  req,         \* per request: the operation and its arguments
  idx,         \* per request: local idx of get_next_question
  resp,        \* per request: the response returned
  ev_pc,       \* /evaluate_domain request: position in the chain
  ev_req,      \* /evaluate_domain request: its arguments
  ev_tried,    \* the stages entered so far, in order
  ev_primary,  \* what the remote call of the Primary stage produced
  ev_lexical,  \* what the local TF-IDF computation produced
  ev_remote,   \* what the remote call of the RemoteJudge stage produced
  ev_resp,     \* the response of the /evaluate_domain request
  fb_pc,       \* /generate-feedback request: position in the chain
  fb_req,      \* /generate-feedback request: its arguments and the store's fate
  fb_tried,    \* the stages of the feedback chain entered so far, in order
  fb_remote,   \* what the remote call of the RemoteGenerator stage produced
  fb_result,   \* the result block the chain produced
  fb_fault,    \* where the store failed in the persistence step
  fb_resp,     \* the response of the /generate-feedback request
  fu_pc,       \* score fusion: position in _merge_scores
  fu_in,       \* score fusion: the four analysis results given to it
  fu_sub,      \* score fusion: the four sub-scores
  fu_w,        \* score fusion: the weights used in the sum
  fu_out,      \* score fusion: the final score and its rating
  in_raw,      \* per request: email, interview_id and domain as received
  lz_pc,       \* per request: position in a lazy model loader
  lz_global,   \* the module globals that hold the model handles
  lz_built     \* per handle: how many times it has been constructed

\* The question-progress state, the evaluation-chain state and the
\* feedback-chain state.
svars == <<questions, store, pc, req, idx, resp>>
evars == <<ev_pc, ev_req, ev_tried, ev_primary, ev_lexical, ev_remote, ev_resp>>
fvars == <<fb_pc, fb_req, fb_tried, fb_remote, fb_result, fb_fault, fb_resp>>
uvars == <<fu_pc, fu_in, fu_sub, fu_w, fu_out>>
ivars == <<in_raw>>
lvars == <<lz_pc, lz_global, lz_built>>
vars == <<svars, evars, fvars, uvars, ivars, lvars>>

\* ------------------------------------------------------------ question bank
\* _load_questions: item ids default to "q<idx+1>".
load_questions(n) == [i \in 1..n |-> [id |-> <<"q", i>>, text |-> <<"text", i>>]]

total == Len(questions)

\* ------------------------------------------------------------------- store
\* First document matching the key (0 when none), as find_one returns it.
find_one(s, key) ==
  IF \E i \in 1..Len(s) : s[i].key = key
  THEN CHOOSE i \in 1..Len(s) :
         /\ s[i].key = key
         /\ \A j \in 1..(i - 1) : s[j].key # key
  ELSE 0

insert_one(s, doc) == Append(s, doc)

doc_current_question_one(doc) ==
  IF doc.current_question = Absent THEN 1 ELSE doc.current_question[1]

\* doc.get("current_question", 0)
doc_current_question(doc) ==
  IF doc.current_question = Absent THEN 0 ELSE doc.current_question[1]

\* doc.get("results", [])
doc_results(doc) == IF doc.results = Absent THEN <<>> ELSE doc.results[1]

\* The update documents the handlers use.
SetIndex(v) == [op |-> "set_index", v |-> v]            \* $set current_question
SetReset == [op |-> "set_reset", v |-> 0]               \* $set current_question 0, results []
SetOnInsertResults == [op |-> "set_on_insert", v |-> 0] \* $setOnInsert results []
PushResult(r) == [op |-> "push", v |-> r]               \* $push results

apply_update_push_resets(doc, upd) ==
  CASE upd.op = "set_index" -> [doc EXCEPT !.current_question = Some(upd.v)]
    [] upd.op = "set_reset" -> [doc EXCEPT !.current_question = Some(0), !.results = Some(<<>>)]
    [] upd.op = "set_on_insert" -> doc
    [] upd.op = "push" -> [doc EXCEPT !.current_question = Some(0),
                                      !.results = Some(Append(doc_results(doc), upd.v))]

apply_update_index_clears(doc, upd) ==
  CASE upd.op = "set_index" -> [doc EXCEPT !.current_question = Some(upd.v), !.results = Some(<<>>)]
    [] upd.op = "set_reset" -> [doc EXCEPT !.current_question = Some(0), !.results = Some(<<>>)]
    [] upd.op = "set_on_insert" -> doc
    [] upd.op = "push" -> [doc EXCEPT !.results = Some(Append(doc_results(doc), upd.v))]

apply_update(doc, upd) ==
  CASE upd.op = "set_index" -> [doc EXCEPT !.current_question = Some(upd.v)]
    [] upd.op = "set_reset" -> [doc EXCEPT !.current_question = Some(0), !.results = Some(<<>>)]
    [] upd.op = "set_on_insert" -> doc
    [] upd.op = "push" -> [doc EXCEPT !.results = Some(Append(doc_results(doc), upd.v))]

\* The document an upsert inserts when nothing matches: the key fields plus
\* the fields of $set / $setOnInsert / $push.
upsert_doc(key, upd) ==
  CASE upd.op = "set_index" ->
         [key |-> key, current_question |-> Some(upd.v), results |-> Absent]
    [] upd.op = "set_reset" ->
         [key |-> key, current_question |-> Some(0), results |-> Some(<<>>)]
    [] upd.op = "set_on_insert" ->
         [key |-> key, current_question |-> Absent, results |-> Some(<<>>)]
    [] upd.op = "push" ->
         [key |-> key, current_question |-> Absent, results |-> Some(<<upd.v>>)]

update_one_replaces_document(s, key, upd, upsert) ==
  LET i == find_one(s, key) IN
  IF i # 0
  THEN [s EXCEPT ![i] = IF upd.op = "set_index" THEN upsert_doc(key, upd)
                        ELSE apply_update(s[i], upd)]
  ELSE IF upsert THEN Append(s, upsert_doc(key, upd))
  ELSE s

\* update_one(key, upd, upsert): changes the first matching document only.
update_one(s, key, upd, upsert) ==
  LET i == find_one(s, key) IN
  IF i # 0 THEN [s EXCEPT ![i] = apply_update(s[i], upd)]
  ELSE IF upsert THEN Append(s, upsert_doc(key, upd))
  ELSE s

\* ---------------------------------------------------------------- responses
BadRequest == [status |-> 400, success |-> FALSE]
DoneResp(t) == [status |-> 200, success |-> TRUE, done |-> TRUE, total |-> t]
QuestionResp(i, t, q) ==
  [status |-> 200, success |-> TRUE, done |-> FALSE,
   index |-> i, total |-> t, id |-> q.id, text |-> q.text]
ResetResp == [status |-> 200, success |-> TRUE, current_question |-> 0]
FeedbackResp == [status |-> 200, success |-> TRUE, feedback |-> TRUE]
NoResp == [status |-> 0]

NoReq == [op |-> "none", key |-> NoKey, result |-> "none"]

\* -------------------------------------------------------------------- Init
\* No request parameters have been received.
NoRaw == [email |-> <<"-">>, interview_id |-> <<"-">>, domain |-> <<"-">>]
InputIdle == in_raw = [p \in Procs |-> NoRaw]

\* The model handles: no thread is in a loader, the globals are None as at
\* import time, nothing has been constructed.
Handles == {"whisper", "extractor", "tone"}
LazyIdle ==
  /\ lz_pc = [p \in Procs |-> "idle"]
  /\ lz_global = [h \in Handles |-> "None"]
  /\ lz_built = [h \in Handles |-> 0]

\* No request of the kind has been issued.
ProgressIdle ==
  /\ store = <<>>
  /\ pc = [p \in Procs |-> "idle"]
  /\ req = [p \in Procs |-> NoReq]
  /\ idx = [p \in Procs |-> 0]
  /\ resp = [p \in Procs |-> NoResp]

NoReply == [call |-> "none", text |-> <<>>, obj |-> <<>>]
NoLexical == [ok |-> FALSE, pct |-> -1]
NoEvalReq == [domain |-> "", user_response |-> ""]

EvalIdle ==
  /\ ev_pc = "idle"
  /\ ev_req = NoEvalReq
  /\ ev_tried = <<>>
  /\ ev_primary = NoReply
  /\ ev_lexical = NoLexical
  /\ ev_remote = NoReply
  /\ ev_resp = NoResp

NoResult == [final_score |-> 0, qualitative_rating |-> "none", feedback |-> "none"]
NoFbReq ==
  [key |-> NoKey, nlp |-> "none", emotion |-> "none", posture |-> "none", tone |-> "none"]
NoRemote == [call |-> "none", out |-> [raised |-> FALSE, result |-> NoResult]]

FbIdle ==
  /\ fb_pc = "idle"
  /\ fb_req = NoFbReq
  /\ fb_tried = <<>>
  /\ fb_remote = NoRemote
  /\ fb_fault = "none"
  /\ fb_result = NoResult
  /\ fb_resp = NoResp

NoFusionIn == [nlp |-> "none", emotion |-> "none", posture |-> "none", tone |-> "none"]
NoFusionOut == [final_score |-> 0, qualitative_rating |-> "none"]

\* No score fusion has been started.
FusionIdle ==
  /\ fu_pc = "idle"
  /\ fu_in = NoFusionIn
  /\ fu_sub = NoFusionIn
  /\ fu_w = <<>>
  /\ fu_out = NoFusionOut

Init ==
  /\ questions \in {load_questions(n) : n \in 0..MaxQuestions}
  /\ ProgressIdle
  /\ EvalIdle
  /\ FbIdle
  /\ FusionIdle
  /\ InputIdle
  /\ LazyIdle

\* ------------------------------------------------------- get_next_question
\* The exhaustion test of get_next_question.
Exhausted_strict(i, t) == i > t
Exhausted(i, t) == i >= t

\* q = qs[idx]: Python indexes from 0, the sequence here from 1.
question_at(qs, i) == qs[i + 1]

\* The value written back as current_question: idx + 1.
next_index_stuck(i) == i
next_index_skip(i) == i + 2
next_index(i) == i + 1

\* The 1-based index shown to the client: idx + 1.
display_index_raw(i) == i
display_index(i) == i + 1

\* Lines 232-236: idx from the document in hand; done when exhausted,
\* otherwise on to the index update.
nq_after_doc(p, i) ==
  IF Exhausted(i, total)
  THEN /\ pc' = [pc EXCEPT ![p] = "done"]
       /\ resp' = [resp EXCEPT ![p] = DoneResp(total)]
       /\ idx' = [idx EXCEPT ![p] = i]
  ELSE /\ pc' = [pc EXCEPT ![p] = "nq_update"]
       /\ idx' = [idx EXCEPT ![p] = i]
       /\ UNCHANGED resp

get_next_question_serves_empty(p, k) ==
  /\ pc[p] = "idle"
  /\ req' = [req EXCEPT ![p] = [op |-> "NextQuestion", key |-> k, result |-> "none"]]
  /\ UNCHANGED <<questions, store, evars, fvars, uvars, lvars>>
  /\ IF k = NoKey
     THEN /\ pc' = [pc EXCEPT ![p] = "done"]
          /\ resp' = [resp EXCEPT ![p] = BadRequest]
          /\ UNCHANGED idx
     ELSE LET i == find_one(store, k) IN
          IF i = 0
          THEN /\ pc' = [pc EXCEPT ![p] = "nq_insert"]
               /\ UNCHANGED <<idx, resp>>
          ELSE nq_after_doc(p, doc_current_question(store[i]))

\* Lines 210-236 up to and including find_one.
get_next_question(p, k) ==
  /\ pc[p] = "idle"
  /\ req' = [req EXCEPT ![p] = [op |-> "NextQuestion", key |-> k, result |-> "none"]]
  /\ UNCHANGED <<questions, store, evars, fvars, uvars, lvars>>
  /\ IF k = NoKey \/ total = 0
     THEN /\ pc' = [pc EXCEPT ![p] = "done"]
          /\ resp' = [resp EXCEPT ![p] = BadRequest]
          /\ UNCHANGED idx
     ELSE LET i == find_one(store, k) IN
          IF i = 0
          THEN /\ pc' = [pc EXCEPT ![p] = "nq_insert"]
               /\ UNCHANGED <<idx, resp>>
          ELSE nq_after_doc(p, doc_current_question(store[i]))

\* The step for a request whose key is given as normalised.
NQ_Find(p, k) == get_next_question(p, k) /\ UNCHANGED ivars

\* Lines 229-236: insert_one of the fresh document, then idx from it.
NQ_Insert(p) ==
  /\ pc[p] = "nq_insert"
  /\ LET doc == [key |-> req[p].key, current_question |-> Some(0), results |-> Some(<<>>)] IN
     /\ store' = insert_one(store, doc)
     /\ nq_after_doc(p, doc_current_question(doc))
  /\ UNCHANGED <<questions, req, evars, fvars, uvars, ivars, lvars>>

\* Lines 239-255: the index update and the response.
NQ_Update(p) ==
  /\ pc[p] = "nq_update"
  /\ store' = update_one(store, req[p].key, SetIndex(next_index(idx[p])), TRUE)
  /\ resp' = [resp EXCEPT ![p] =
                QuestionResp(display_index(idx[p]), total, question_at(questions, idx[p]))]
  /\ pc' = [pc EXCEPT ![p] = "done"]
  /\ UNCHANGED <<questions, req, idx, evars, fvars, uvars, ivars, lvars>>

\* ---------------------------------------------------------- reset_progress
reset_progress(p, k) ==
  /\ pc[p] = "idle"
  /\ req' = [req EXCEPT ![p] = [op |-> "Reset", key |-> k, result |-> "none"]]
  /\ pc' = [pc EXCEPT ![p] = "done"]
  /\ IF k = NoKey
     THEN /\ resp' = [resp EXCEPT ![p] = BadRequest]
          /\ UNCHANGED store
     ELSE /\ store' = update_one(store, k, SetReset, TRUE)
          /\ resp' = [resp EXCEPT ![p] = ResetResp]
  /\ UNCHANGED <<questions, idx, evars, fvars, uvars, lvars>>

Reset(p, k) == reset_progress(p, k) /\ UNCHANGED ivars

\* --------------------------- generate_feedback_route: the persistence step
\* Lines 717-740: persistence is skipped without a full key; otherwise the
\* "ensure doc exists" upsert.
persist_ensure(p, k, r) ==
  /\ pc[p] = "idle"
  /\ req' = [req EXCEPT ![p] = [op |-> "AppendResult", key |-> k, result |-> r]]
  /\ IF k = NoKey
     THEN /\ pc' = [pc EXCEPT ![p] = "done"]
          /\ resp' = [resp EXCEPT ![p] = FeedbackResp]
          /\ UNCHANGED store
     ELSE /\ store' = update_one(store, k, SetOnInsertResults, TRUE)
          /\ pc' = [pc EXCEPT ![p] = "ar_push"]
          /\ UNCHANGED resp
  /\ UNCHANGED <<questions, idx, evars, fvars, uvars, lvars>>

AR_Ensure(p, k, r) == persist_ensure(p, k, r) /\ UNCHANGED ivars

\* Lines 742-763: the $push and the response.
AR_Push(p) ==
  /\ pc[p] = "ar_push"
  /\ store' = update_one(store, req[p].key, PushResult(req[p].result), FALSE)
  /\ resp' = [resp EXCEPT ![p] = FeedbackResp]
  /\ pc' = [pc EXCEPT ![p] = "done"]
  /\ UNCHANGED <<questions, req, idx, evars, fvars, uvars, ivars, lvars>>

\* ----------------------------------------------------------- final_feedback
\* The keys of the model are the domains of one interview of one candidate;
\* the dashboard query names the candidate and the interview only.
Interviews == {"i1"}
NoInterview == ""
interview_of(key) == "i1"

\* find_one({"email", "interview_id"}): the first document of the interview,
\* whatever its domain (0 when none).
find_one_interview(s, iv) ==
  IF \E i \in 1..Len(s) : interview_of(s[i].key) = iv
  THEN CHOOSE i \in 1..Len(s) :
         /\ interview_of(s[i].key) = iv
         /\ \A j \in 1..(i - 1) : interview_of(s[j].key) # iv
  ELSE 0

NotFound == [status |-> 404, success |-> FALSE]
NoLast == "none"
\* last_list[-1] if last_list else {}
last_result(doc) ==
  IF doc_results(doc) = <<>> THEN NoLast ELSE doc_results(doc)[Len(doc_results(doc))]
LastResp(last) == [status |-> 200, success |-> TRUE, last |-> last]

\* The whole handler: it reads the store once and writes nothing.
FinalFeedback(p, iv) ==
  /\ pc[p] = "idle"
  /\ req' = [req EXCEPT ![p] = [op |-> "FinalFeedback", key |-> NoKey, result |-> "none"]]
  /\ pc' = [pc EXCEPT ![p] = "done"]
  /\ resp' = [resp EXCEPT ![p] =
       IF iv = NoInterview THEN BadRequest
       ELSE LET i == find_one_interview(store, iv) IN
            IF i = 0 THEN NotFound ELSE LastResp(last_result(store[i]))]
  /\ UNCHANGED <<questions, store, idx, evars, fvars, uvars, ivars, lvars>>

\* =================================================== domain-answer evaluation
\* A model reply is a text, seen as a sequence of tokens: "{" and "}", "m" (one
\* "key": value member), "n" (a JSON scalar) and "w" (prose).  obj tells which
\* members the "m" tokens of the text stand for.
Tokens == {"{", "}", "m", "n", "w"}
Texts == UNION {[1..n -> Tokens] : n \in 0..MaxTextLen}

Num(n) == [kind |-> "num", n |-> n]
Str == [kind |-> "str", n |-> 0]        \* a string that is no number
Null == [kind |-> "null", n |-> 0]      \* JSON null, Python None

EmptyObj ==
  [similarity_score |-> Absent, score |-> Absent, feedback |-> Absent, comment |-> Absent]

ScoreValues == {Num(72), Num(150), Num(-5), Str, Null}

Objs ==
  [similarity_score : {Absent} \cup {Some(v) : v \in ScoreValues},
   score : {Absent, Some(Num(30))},
   feedback : {Absent, Some("model_feedback")},
   comment : {Absent, Some("model_comment")}]

HasToken(text, tok) == \E i \in 1..Len(text) : text[i] = tok

\* What an HTTP call to the model can produce: a text (obj says something
\* only when the text has a member), an error or a timeout.
Calls == {"ok", "error", "timeout"}
TextsOf(c) == IF c = "ok" THEN Texts ELSE {<<>>}
ObjsOf(t) == IF HasToken(t, "m") THEN Objs ELSE {EmptyObj}
Reply(c, t, o) == [call |-> c, text |-> t, obj |-> o]

\* json.loads: a scalar, or an object "{" m* "}"; anything else raises.
json_loads(text, obj) ==
  IF text = <<"n">> THEN [ok |-> TRUE, kind |-> "scalar", obj |-> EmptyObj]
  ELSE IF /\ Len(text) >= 2
          /\ text[1] = "{" /\ text[Len(text)] = "}"
          /\ \A i \in 2..(Len(text) - 1) : text[i] = "m"
       THEN [ok |-> TRUE, kind |-> "dict",
             obj |-> IF Len(text) = 2 THEN EmptyObj ELSE obj]
       ELSE [ok |-> FALSE, kind |-> "none", obj |-> EmptyObj]

\* str.find / str.rfind, 1-based, 0 when the token does not occur.
find_first(text, tok) ==
  IF HasToken(text, tok)
  THEN CHOOSE i \in 1..Len(text) :
         text[i] = tok /\ \A j \in 1..(i - 1) : text[j] # tok
  ELSE 0
find_last(text, tok) ==
  IF HasToken(text, tok)
  THEN CHOOSE i \in 1..Len(text) :
         text[i] = tok /\ \A j \in (i + 1)..Len(text) : text[j] # tok
  ELSE 0

\* text[start:end+1], the part from the first "{" to the last "}".
brace_candidate(text) == SubSeq(text, find_first(text, "{"), find_last(text, "}"))

EmptyDict == [kind |-> "dict", obj |-> EmptyObj]

\* ---- src/utils/llm_client.py
\* rapidapi_chat_json: the content of the reply; any failure of the call is
\* turned into the text "ERROR: ...", which is prose.
ErrorText == <<"w">>
llm_rapidapi_chat_json(reply) ==
  IF reply.call = "ok" THEN reply.text ELSE ErrorText

\* rapidapi_try_parse_json: never raises, {} when nothing parses.
llm_rapidapi_try_parse_json(text, obj) ==
  LET direct == json_loads(text, obj) IN
  IF direct.ok THEN [kind |-> direct.kind, obj |-> direct.obj]
  ELSE IF find_first(text, "{") = 0 \/ find_last(text, "}") = 0 THEN EmptyDict
  ELSE LET cand == json_loads(brace_candidate(text), obj) IN
       IF cand.ok THEN [kind |-> cand.kind, obj |-> cand.obj] ELSE EmptyDict

\* ---- src/app.py
\* rapidapi_chat_json: raises when the call fails, else the reply text.
app_rapidapi_chat_json(reply) ==
  IF reply.call = "ok" THEN [raised |-> FALSE, text |-> reply.text]
  ELSE [raised |-> TRUE, text |-> <<>>]

\* rapidapi_try_parse_json: raises ValueError when nothing parses.
app_rapidapi_try_parse_json(text, obj) ==
  LET direct == json_loads(text, obj)
      start == find_first(text, "{")
      end == find_last(text, "}")
  IN
  IF direct.ok THEN [raised |-> FALSE, kind |-> direct.kind, obj |-> direct.obj]
  ELSE IF start # 0 /\ end # 0 /\ end > start
            /\ json_loads(brace_candidate(text), obj).ok
       THEN LET cand == json_loads(brace_candidate(text), obj) IN
            [raised |-> FALSE, kind |-> cand.kind, obj |-> cand.obj]
       ELSE [raised |-> TRUE, kind |-> "none", obj |-> EmptyObj]

\* float(v): a number, or an exception.
float_of(v) ==
  IF v.kind = "num" THEN [raised |-> FALSE, n |-> v.n] ELSE [raised |-> TRUE, n |-> 0]

\* max(0.0, min(100.0, x))
clamp_0_100(x) == IF x < 0 THEN 0 ELSE IF x > 100 THEN 100 ELSE x

\* The outcome of a stage: an exception, or a score and a feedback text.
Raised == [raised |-> TRUE, score |-> 0, feedback |-> "none"]
Outcome(score, feedback) == [raised |-> FALSE, score |-> score, feedback |-> feedback]

\* ---- src/modules/nlp/domain_evaluator.py
\* evaluate_domain_response, after the empty-answer test (lines 71-107).
evaluate_domain_response(reply) ==
  LET model_text == llm_rapidapi_chat_json(reply)
      parsed == llm_rapidapi_try_parse_json(model_text, reply.obj)
  IN
  IF parsed.kind # "dict" THEN Raised     \* parsed.get on a non-dict
  ELSE
    LET o == parsed.obj
        score == IF o.similarity_score # Absent THEN o.similarity_score[1]
                 ELSE IF o.score # Absent THEN o.score[1] ELSE Null
        score_f == IF score.kind = "null" \/ float_of(score).raised THEN 50
                   ELSE float_of(score).n
        feedback == IF o.feedback # Absent THEN o.feedback[1] ELSE "good_attempt"
    IN Outcome(clamp_0_100(score_f), feedback)

\* ---- src/app.py evaluate_domain_route
\* Stage 2 (lines 416-438): the feedback band of the TF-IDF percentage.
lexical_feedback(pct) ==
  IF pct > 80 THEN "excellent"
  ELSE IF pct > 60 THEN "good"
  ELSE IF pct > 40 THEN "fair"
  ELSE "weak"

\* What the TF-IDF computation produces: a percentage, or an exception (empty
\* vocabulary, missing library).
SimilarityPcts == {0, 41, 61, 81, 100}
LexicalRuns ==
  {[ok |-> TRUE, pct |-> n] : n \in SimilarityPcts} \cup {[ok |-> FALSE, pct |-> 0]}

lexical_stage(run) ==
  IF run.ok THEN Outcome(run.pct, lexical_feedback(run.pct)) ELSE Raised

\* Stage 3 (lines 443-463).
remote_judge(reply) ==
  LET got == app_rapidapi_chat_json(reply) IN
  IF got.raised THEN Raised
  ELSE
    LET parsed == app_rapidapi_try_parse_json(got.text, reply.obj) IN
    IF parsed.raised \/ parsed.kind # "dict" THEN Raised
    ELSE
      LET o == parsed.obj
          score == IF o.similarity_score # Absent THEN o.similarity_score[1]
                   ELSE IF o.score # Absent THEN o.score[1] ELSE Num(50)
          feedback == IF o.feedback # Absent THEN o.feedback[1]
                      ELSE IF o.comment # Absent THEN o.comment[1] ELSE "empty"
      IN IF float_of(score).raised THEN Raised
         ELSE Outcome(float_of(score).n, feedback)

\* The responses of the route.
EvalResp(status, success, score, feedback, warning) ==
  [status |-> status, success |-> success, score |-> score,
   feedback |-> feedback, warning |-> warning]
EvalBadRequest == EvalResp(400, FALSE, 0, "none", FALSE)
EvalOk_default(out) == EvalResp(200, TRUE, 50, "generic", FALSE)

EvalOk(out) == EvalResp(200, TRUE, out.score, out.feedback, FALSE)
\* Line 466-471.
safe_default_error == EvalResp(500, FALSE, 0, "none", FALSE)
safe_default == EvalResp(200, TRUE, 50, "generic", FALSE)
\* Line 473-479.
hard_default == EvalResp(200, TRUE, 50, "system_error", TRUE)

\* The domains a request may name: none, one with a question file, one without.
Domains == {"", "known", "unknown"}
\* The candidate texts of a request: none, blanks only, an answer, an answer
\* between blanks.
UserResponses == {"", "  ", "answer", " answer "}

strip_nothing(text) == text

\* str.strip on the texts of the model.
strip(text) ==
  CASE text = "  " -> ""
    [] text = " answer " -> "answer"
    [] OTHER -> text

\* Lines 376-411 up to the remote call of the Primary stage.
EV_Begin(d, u) ==
  /\ ev_pc = "idle"
  /\ ev_req' = [domain |-> d, user_response |-> u]
  /\ IF d = ""
     THEN /\ ev_resp' = EvalBadRequest
          /\ ev_pc' = "responded"
          /\ UNCHANGED ev_tried
     ELSE IF d = "unknown"
     THEN /\ ev_resp' = hard_default          \* _load_questions raises
          /\ ev_pc' = "responded"
          /\ UNCHANGED ev_tried
     ELSE IF strip(u) = ""
     THEN /\ ev_tried' = <<"Primary">>
          /\ ev_resp' = EvalOk(Outcome(0, "no_response"))
          /\ ev_pc' = "responded"
     ELSE /\ ev_tried' = <<"Primary">>
          /\ ev_pc' = "primary_call"
          /\ UNCHANGED ev_resp
  /\ UNCHANGED <<ev_primary, ev_lexical, ev_remote, svars, fvars, uvars, ivars, lvars>>

\* Lines 406-413: the Primary stage once its remote call has returned.
EV_Primary(reply) ==
  /\ ev_pc = "primary_call"
  /\ ev_primary' = reply
  /\ LET out == evaluate_domain_response(reply) IN
     IF out.raised
     THEN /\ ev_pc' = "lexical"
          /\ ev_tried' = Append(ev_tried, "LocalLexical")
          /\ UNCHANGED ev_resp
     ELSE /\ ev_pc' = "responded"
          /\ ev_resp' = EvalOk(out)
          /\ UNCHANGED ev_tried
  /\ UNCHANGED <<ev_req, ev_lexical, ev_remote, svars, fvars, uvars, ivars, lvars>>

EV_Lexical_retries_primary(run) ==
  /\ ev_pc = "lexical"
  /\ ev_lexical' = run
  /\ LET out == lexical_stage(run) IN
     IF out.raised
     THEN /\ ev_pc' = "primary_call"
          /\ ev_tried' = Append(ev_tried, "Primary")
          /\ UNCHANGED ev_resp
     ELSE /\ ev_pc' = "responded"
          /\ ev_resp' = EvalOk(out)
          /\ UNCHANGED ev_tried
  /\ UNCHANGED <<ev_req, ev_primary, ev_remote, svars, fvars, uvars, ivars, lvars>>

\* Lines 416-440: the LocalLexical stage.
EV_Lexical(run) ==
  /\ ev_pc = "lexical"
  /\ ev_lexical' = run
  /\ LET out == lexical_stage(run) IN
     IF out.raised
     THEN /\ ev_pc' = "remote_call"
          /\ ev_tried' = Append(ev_tried, "RemoteJudge")
          /\ UNCHANGED ev_resp
     ELSE /\ ev_pc' = "responded"
          /\ ev_resp' = EvalOk(out)
          /\ UNCHANGED ev_tried
  /\ UNCHANGED <<ev_req, ev_primary, ev_remote, svars, fvars, uvars, ivars, lvars>>

\* Lines 443-471: the RemoteJudge stage once its remote call has returned,
\* and the last-resort default.
EV_Remote(reply) ==
  /\ ev_pc = "remote_call"
  /\ ev_remote' = reply
  /\ ev_pc' = "responded"
  /\ LET out == remote_judge(reply) IN
     IF out.raised
     THEN /\ ev_tried' = Append(ev_tried, "Default")
          /\ ev_resp' = safe_default
     ELSE /\ ev_resp' = EvalOk(out)
          /\ UNCHANGED ev_tried
  /\ UNCHANGED <<ev_req, ev_primary, ev_lexical, svars, fvars, uvars, ivars, lvars>>

\* ======================================================== feedback generation
\* ---- src/modules/feedback/feedback_generator.py
\* Scores are exact fixed-point numbers: ONE stands for 1.0 and Milli(x) for
\* x thousandths, so that every division of the fusion is exact.
ONE == 180000
Milli(x) == x * (ONE \div 1000)

\* max(0.0, min(1.0, x))
clamp_0_1(x) == IF x < 0 THEN 0 ELSE IF x > ONE THEN ONE ELSE x

\* The nlp_result of a request: a JSON object with its similarity_score and
\* score members, or something that is no object.
NlpDict(sim, sc) == [shape |-> "dict", similarity_score |-> sim, score |-> sc]
NlpString == [shape |-> "string", similarity_score |-> Absent, score |-> Absent]
NlpNumber == [shape |-> "number", similarity_score |-> Absent, score |-> Absent]

\* nlp.get("similarity_score", nlp.get("score")), None when both are missing.
nlp_similarity(nlp) ==
  IF nlp.similarity_score # Absent THEN nlp.similarity_score[1]
  ELSE IF nlp.score # Absent THEN nlp.score[1] ELSE Null

_norm_similarity_percent_above_one(nlp) ==
  IF nlp.shape # "dict" THEN Milli(500)
  ELSE LET s == nlp_similarity(nlp) IN
       IF s.kind = "null" \/ float_of(s).raised THEN Milli(500)
       ELSE LET f == float_of(s).n IN
            clamp_0_1(IF f > ONE THEN f \div 100 ELSE f)

_norm_similarity(nlp) ==
  IF nlp.shape # "dict" THEN Milli(500)
  ELSE LET s == nlp_similarity(nlp) IN
       IF s.kind = "null" \/ float_of(s).raised THEN Milli(500)
       ELSE LET f == float_of(s).n IN
            clamp_0_1(IF f > Milli(1500) THEN f \div 100 ELSE f)

\* The result of one analyzer as the request carries it: missing or empty
\* (kind "absent"), no object ("nondict"), an object with success false
\* ("failed"), or an object with a label / summary ("label").  A label is a
\* string, or NotAString for a JSON number, list or object.
NotAString == "<number>"
NoLabel == ""
Signal(kind, label) == [kind |-> kind, label |-> label]
AbsentSignal == Signal("absent", NoLabel)

\* str.lower; a value that is no string has no such method.
lower(label) ==
  IF label = NotAString THEN [raised |-> TRUE, s |-> NoLabel]
  ELSE [raised |-> FALSE,
        s |-> CASE label = "Happy" -> "happy"
                [] label = "Good posture" -> "good posture"
                [] OTHER -> label]

\* A sub-score, or the exception of the function that computes it; none is
\* -1 for the None of _posture_score.
SubScore(v) == [raised |-> FALSE, v |-> v]
SubScoreRaised == [raised |-> TRUE, v |-> 0]
NoSubScore == SubScore(-1)

_emotion_score(emotion) ==
  IF emotion.kind \in {"nondict", "failed"} THEN SubScore(Milli(700))
  ELSE LET dom == lower(emotion.label) IN
       IF dom.raised THEN SubScoreRaised
       ELSE IF dom.s \in {"hap", "happy", "joy"} THEN SubScore(Milli(900))
       ELSE IF dom.s \in {"neutral", "neu"} THEN SubScore(Milli(800))
       ELSE IF dom.s \in {"sad", "ang", "angry", "fear"} THEN SubScore(Milli(600))
       ELSE SubScore(Milli(700))

_tone_score(tone) ==
  IF tone.kind \in {"nondict", "failed"} THEN SubScore(Milli(700))
  ELSE LET dom == lower(tone.label) IN
       IF dom.raised THEN SubScoreRaised
       ELSE IF dom.s \in {"hap", "happy", "excited"} THEN SubScore(Milli(900))
       ELSE IF dom.s \in {"neutral", "neu", "calm"} THEN SubScore(Milli(800))
       ELSE IF dom.s \in {"sad", "ang", "angry", "fear"} THEN SubScore(Milli(600))
       ELSE SubScore(Milli(700))

\* "word" in summary, for the summaries of the model.
contains(summary, word) ==
  \/ summary = word
  \/ summary = "good posture" /\ word = "good"
  \/ summary = "excellent, not poor" /\ word \in {"excellent", "poor"}

_posture_score_default(posture) ==
  IF posture.kind \in {"nondict", "failed"} THEN SubScore(Milli(700))
  ELSE LET summary == lower(posture.label) IN
       IF summary.raised THEN SubScoreRaised
       ELSE IF contains(summary.s, "excellent") THEN SubScore(Milli(900))
       ELSE IF contains(summary.s, "good") THEN SubScore(Milli(800))
       ELSE IF contains(summary.s, "poor") \/ contains(summary.s, "bad")
            THEN SubScore(Milli(600))
       ELSE SubScore(Milli(700))

_posture_score(posture) ==
  IF posture.kind \in {"nondict", "failed"} THEN NoSubScore
  ELSE LET summary == lower(posture.label) IN
       IF summary.raised THEN SubScoreRaised
       ELSE IF contains(summary.s, "excellent") THEN SubScore(Milli(900))
       ELSE IF contains(summary.s, "good") THEN SubScore(Milli(800))
       ELSE IF contains(summary.s, "poor") \/ contains(summary.s, "bad")
            THEN SubScore(Milli(600))
       ELSE SubScore(Milli(700))

\* The weights of _merge_scores, in hundredths.
BaseWeights == [nlp |-> 65, emotion |-> 15, tone |-> 10, posture |-> 10]

\* weights.get(k, 0) and sum(weights.values()) for weights over these keys.
weight_get(w, k) == IF k \in DOMAIN w THEN w[k] ELSE 0
weight_sum(w) ==
  weight_get(w, "nlp") + weight_get(w, "emotion")
    + weight_get(w, "tone") + weight_get(w, "posture")

\* Lines 86-90: the posture weight is popped and shared out in proportion.
\* The weights stay integers: num[k] over the common denominator den.
redistribute_equal_shares(w) ==
  LET removed == w.posture
      rest == [k \in DOMAIN w \ {"posture"} |-> w[k]]
  IN [num |-> [k \in DOMAIN rest |-> rest[k] * 3 + removed], den |-> 300]

redistribute(w) ==
  LET removed == w.posture
      rest == [k \in DOMAIN w \ {"posture"} |-> w[k]]
      tot == weight_sum(rest)
  IN [num |-> [k \in DOMAIN rest |-> rest[k] * tot + rest[k] * removed],
      den |-> 100 * tot]

\* Lines 92-94: every weight is divided by the total of the weights.  The
\* quotients are fixed-point numbers too: WeightOne stands for the weight 1.0.
WeightOne == 1800
normalise(w) ==
  LET tot == weight_sum(w.num) IN
  [k \in DOMAIN w.num |-> (w.num[k] * WeightOne) \div tot]

fusion_weights_unnormalised(post_s) ==
  IF post_s = NoSubScore
  THEN [k \in DOMAIN BaseWeights \ {"posture"} |-> (BaseWeights[k] * WeightOne) \div 100]
  ELSE normalise([num |-> BaseWeights, den |-> 100])

fusion_weights_never_redistributed(post_s) ==
  normalise([num |-> BaseWeights, den |-> 100])

\* Lines 79-94: the weights used in the sum.
fusion_weights(post_s) ==
  normalise(IF post_s = NoSubScore THEN redistribute(BaseWeights)
            ELSE [num |-> BaseWeights, den |-> 100])

weighted_sum_minus_tone(w, nlp_s, emo_s, tone_s, post_s) ==
  clamp_0_1((weight_get(w, "nlp") * nlp_s
               + weight_get(w, "emotion") * emo_s
               - weight_get(w, "tone") * tone_s
               + weight_get(w, "posture") * (IF post_s = NoSubScore.v THEN 0 ELSE post_s))
              \div WeightOne)

\* Lines 96-103: the weighted sum of the sub-scores, clamped; post_s is
\* NoSubScore.v for None.
weighted_sum(w, nlp_s, emo_s, tone_s, post_s) ==
  clamp_0_1((weight_get(w, "nlp") * nlp_s
               + weight_get(w, "emotion") * emo_s
               + weight_get(w, "tone") * tone_s
               + weight_get(w, "posture") * (IF post_s = NoSubScore.v THEN 0 ELSE post_s))
              \div WeightOne)

_merge_scores(nlp, emotion, posture, tone) ==
  LET nlp_s == _norm_similarity(nlp)
      emo_s == _emotion_score(emotion)
      tone_s == _tone_score(tone)
      post_s == _posture_score(posture)
  IN
  IF emo_s.raised \/ tone_s.raised \/ post_s.raised THEN SubScoreRaised
  ELSE SubScore(weighted_sum(fusion_weights(post_s), nlp_s, emo_s.v, tone_s.v, post_s.v))

_rating_from_score_high_bar(score) ==
  IF score >= Milli(900) THEN "Excellent"
  ELSE IF score >= Milli(650) THEN "Good"
  ELSE IF score >= Milli(450) THEN "Average"
  ELSE "Poor"

_rating_from_score(score) ==
  IF score >= Milli(800) THEN "Excellent"
  ELSE IF score >= Milli(650) THEN "Good"
  ELSE IF score >= Milli(450) THEN "Average"
  ELSE "Poor"

\* utils/scoring_utils.py: the banding of qualitative_feedback.
qualitative_feedback(final_score) ==
  IF final_score >= Milli(850) THEN "Excellent"
  ELSE IF final_score >= Milli(700) THEN "Good"
  ELSE IF final_score >= Milli(500) THEN "Average"
  ELSE "Needs Improvement"

\* A result block, and the outcome of a stage of the chain: an exception or
\* a result block.
Result(score, rating, feedback) ==
  [final_score |-> score, qualitative_rating |-> rating, feedback |-> feedback]
FbRaised == [raised |-> TRUE, result |-> NoResult]
FbOutcome(r) == [raised |-> FALSE, result |-> r]

\* The members a reply to a feedback prompt can carry.
FbEmptyObj ==
  [final_score |-> Absent, score |-> Absent, qualitative_rating |-> Absent,
   rating |-> Absent, feedback |-> Absent, comment |-> Absent]

\* An object without members is {} whatever the prompt was.
members_of(parsed) == IF parsed.obj = EmptyObj THEN FbEmptyObj ELSE parsed.obj

\* Replies to the coaching prompt of generate_feedback: only the feedback
\* member is read; it may be an empty string.
CoachObjs ==
  {[FbEmptyObj EXCEPT !.feedback = f] : f \in {Absent, Some("model_feedback"), Some("")}}

\* Lines 146-161: the feedback text of the local generator; every failure of
\* the call or of the reply gives the fallback text.
coach_feedback(reply) ==
  LET model_text == llm_rapidapi_chat_json(reply)
      parsed == llm_rapidapi_try_parse_json(model_text, reply.obj)
  IN
  IF parsed.kind # "dict" THEN "local_fallback"
  ELSE LET feedback_text == members_of(parsed).feedback IN
       IF feedback_text = Absent \/ feedback_text = Some("") THEN "local_fallback"
       ELSE feedback_text[1]

\* generate_feedback: the score and the rating come first (they may raise),
\* the text comes from the remote call.
generate_feedback(nlp, emotion, posture, tone, reply) ==
  LET final_score == _merge_scores(nlp, emotion, posture, tone) IN
  IF final_score.raised THEN FbRaised
  ELSE FbOutcome(Result(final_score.v, _rating_from_score(final_score.v),
                        coach_feedback(reply)))

\* ---- src/app.py generate_feedback_route
\* Lines 621-629: a score member is renamed similarity_score; the membership
\* test raises on a number.
normalize_nlp(raw) ==
  IF raw.shape = "number" THEN [raised |-> TRUE, nlp |-> raw]
  ELSE IF raw.shape = "dict" /\ raw.score # Absent /\ raw.similarity_score = Absent
  THEN [raised |-> FALSE, nlp |-> NlpDict(raw.score, Absent)]
  ELSE [raised |-> FALSE, nlp |-> raw]

\* Replies to the prompt of the remote generator.
GenScoreValues == {Num(Milli(700)), Num(Milli(7000)), Num(-Milli(200)), Str, Null}
GenObjs ==
  [final_score : {Absent} \cup {Some(v) : v \in GenScoreValues},
   score : {Absent, Some(Num(Milli(300)))},
   qualitative_rating : {Absent, Some("Excellent")},
   rating : {Absent, Some("Poor")},
   feedback : {Absent, Some("model_feedback")},
   comment : {Absent, Some("model_comment")}]

GenTexts == UNION {[1..n -> Tokens] : n \in 0..MaxGenTextLen}
GenTextsOf(c) == IF c = "ok" THEN GenTexts ELSE {<<>>}
CoachObjsOf(t) == IF HasToken(t, "m") THEN CoachObjs ELSE {FbEmptyObj}
GenObjsOf(t) == IF HasToken(t, "m") THEN GenObjs ELSE {FbEmptyObj}

\* Lines 667-679: the remote generator.
remote_generator(reply) ==
  LET got == app_rapidapi_chat_json(reply) IN
  IF got.raised THEN FbRaised
  ELSE
    LET parsed == app_rapidapi_try_parse_json(got.text, reply.obj) IN
    IF parsed.raised \/ parsed.kind # "dict" THEN FbRaised
    ELSE
      LET o == members_of(parsed)
          score == IF o.final_score # Absent THEN o.final_score[1]
                   ELSE IF o.score # Absent THEN o.score[1] ELSE Num(Milli(500))
          rating == IF o.qualitative_rating # Absent THEN o.qualitative_rating[1]
                    ELSE IF o.rating # Absent THEN o.rating[1] ELSE "Average"
          feedback == IF o.feedback # Absent THEN o.feedback[1]
                      ELSE IF o.comment # Absent THEN o.comment[1] ELSE "str_parsed"
      IN IF float_of(score).raised THEN FbRaised
         ELSE FbOutcome(Result(float_of(score).n, rating, feedback))

\* Lines 683-714: the last-resort aggregate.
last_resort_percent_above_1_5(nlp) ==
  LET agg_score ==
        IF nlp.shape = "dict" /\ (nlp.similarity_score # Absent \/ nlp.score # Absent)
        THEN LET s == nlp_similarity(nlp) IN
             IF s.kind = "null" \/ float_of(s).raised THEN Milli(500)
             ELSE IF float_of(s).n > Milli(1500) THEN float_of(s).n \div 100
             ELSE float_of(s).n
        ELSE Milli(500)
      qualitative ==
        IF agg_score >= Milli(800) THEN "Excellent"
        ELSE IF agg_score >= Milli(650) THEN "Good"
        ELSE IF agg_score >= Milli(450) THEN "Average"
        ELSE "Poor"
  IN Result(agg_score, qualitative, "basic_fallback")

last_resort(nlp) ==
  LET agg_score ==
        IF nlp.shape = "dict" /\ (nlp.similarity_score # Absent \/ nlp.score # Absent)
        THEN LET s == nlp_similarity(nlp) IN
             IF s.kind = "null" \/ float_of(s).raised THEN Milli(500)
             ELSE IF float_of(s).n > ONE THEN float_of(s).n \div 100
             ELSE float_of(s).n
        ELSE Milli(500)
      qualitative ==
        IF agg_score >= Milli(800) THEN "Excellent"
        ELSE IF agg_score >= Milli(650) THEN "Good"
        ELSE IF agg_score >= Milli(450) THEN "Average"
        ELSE "Poor"
  IN Result(agg_score, qualitative, "basic_fallback")

\* Lines 716-746: what the persistence step leaves in the store.  fault tells
\* where the store fails: nowhere, on _get_collection (or while per_q is
\* built), on the upsert, or on the push.
StoreFaults == {"none", "connect", "ensure", "push"}
persist(s, key, per_q, fault) ==
  IF key = NoKey \/ fault \in {"connect", "ensure"} THEN s
  ELSE LET ensured == update_one(s, key, SetOnInsertResults, TRUE) IN
       IF fault = "push" THEN ensured
       ELSE update_one(ensured, key, PushResult(per_q), FALSE)

\* The responses of the route: lines 750-763 and 765-788.
FbResp_failure(result, error) ==
  [status |-> IF result.feedback = "basic_fallback" THEN 500 ELSE 200,
   success |-> result.feedback # "basic_fallback",
   final_score |-> result.final_score,
   qualitative_rating |-> result.qualitative_rating,
   feedback |-> result.feedback, error |-> error]

FbResp(result, error) ==
  [status |-> 200, success |-> TRUE, final_score |-> result.final_score,
   qualitative_rating |-> result.qualitative_rating,
   feedback |-> result.feedback, error |-> error]
hard_fallback == FbResp(Result(Milli(500), "Average", "system_error"), TRUE)

persist_response_propagates(result, fault) ==
  IF fault = "none" THEN FbResp(result, FALSE) ELSE hard_fallback

\* Lines 718-763: a failure of the store is logged and the response is built
\* from the result all the same.
persist_response(result, fault) == FbResp(result, FALSE)

\* The requests of the model.
NlpNums ==
  {Num(-Milli(100)), Num(Milli(500)), Num(Milli(1200)), Num(Milli(72000)),
   Num(Milli(150000))}
NlpInputs ==
  {NlpDict(Some(v), Absent) : v \in NlpNums \cup {Str, Null}}
    \cup {NlpDict(Absent, Absent), NlpDict(Absent, Some(Num(Milli(30000)))),
          NlpDict(Some(Num(Milli(500))), Some(Num(Milli(30000)))),
          NlpString, NlpNumber}
SignalInputs ==
  {[emotion |-> AbsentSignal, tone |-> AbsentSignal, posture |-> AbsentSignal],
   [emotion |-> Signal("label", "Happy"), tone |-> Signal("label", "calm"),
    posture |-> Signal("label", "Good posture")],
   [emotion |-> Signal("failed", NoLabel), tone |-> Signal("nondict", NoLabel),
    posture |-> Signal("failed", NoLabel)],
   [emotion |-> Signal("label", NotAString), tone |-> AbsentSignal,
    posture |-> AbsentSignal]}
FbKeys == {NoKey, "k1"}

\* Lines 615-645 up to the remote call of the stage that runs first: the
\* local generator's when its score came out, the remote generator's when
\* the local generator raised.
FB_Begin(k, raw, sig) ==
  /\ fb_pc = "idle"
  /\ fb_req' = [key |-> k, nlp |-> raw, emotion |-> sig.emotion,
                posture |-> sig.posture, tone |-> sig.tone]
  /\ LET norm == normalize_nlp(raw) IN
     IF norm.raised
     THEN /\ fb_resp' = hard_fallback
          /\ fb_pc' = "responded"
          /\ UNCHANGED fb_tried
     ELSE /\ UNCHANGED fb_resp
          /\ IF _merge_scores(norm.nlp, sig.emotion, sig.posture, sig.tone).raised
             THEN /\ fb_tried' = <<"Local", "Remote">>
                  /\ fb_pc' = "remote_call"
             ELSE /\ fb_tried' = <<"Local">>
                  /\ fb_pc' = "local_call"
  /\ UNCHANGED <<fb_remote, fb_result, fb_fault, svars, evars, uvars, ivars, lvars>>

\* Lines 637-645: the local generator once its remote call has returned.
FB_Local(reply) ==
  /\ fb_pc = "local_call"
  /\ fb_result' = generate_feedback(normalize_nlp(fb_req.nlp).nlp, fb_req.emotion,
                                    fb_req.posture, fb_req.tone, reply).result
  /\ fb_pc' = "persist"
  /\ UNCHANGED <<fb_req, fb_tried, fb_remote, fb_resp, fb_fault, svars, evars, uvars, ivars, lvars>>

\* Lines 646-714: the remote generator once its call has returned, and the
\* last-resort aggregate when it failed.
FB_Remote(reply) ==
  /\ fb_pc = "remote_call"
  /\ LET out == remote_generator(reply) IN
     /\ fb_remote' = [call |-> reply.call, out |-> out]
     /\ IF out.raised
        THEN /\ fb_tried' = Append(fb_tried, "LastResort")
             /\ fb_result' = last_resort(normalize_nlp(fb_req.nlp).nlp)
        ELSE /\ fb_result' = out.result
             /\ UNCHANGED fb_tried
  /\ fb_pc' = "persist"
  /\ UNCHANGED <<fb_req, fb_resp, fb_fault, svars, evars, uvars, ivars, lvars>>

\* Lines 716-763: the persistence step and the response.
FB_Persist(fault) ==
  /\ fb_pc = "persist"
  /\ fb_req.key = NoKey => fault = "none"
  /\ fb_fault' = fault
  /\ store' = persist(store, fb_req.key, fb_result, fault)
  /\ fb_resp' = persist_response(fb_result, fault)
  /\ fb_pc' = "responded"
  /\ UNCHANGED <<fb_req, fb_tried, fb_remote, fb_result,
                 questions, pc, req, idx, resp, evars, uvars, ivars, lvars>>

\* ------------------------------------------------- score fusion, step by step
\* The analysis results the fusion is tried on: every label of the two
\* tables, labels of neither, capitalised and non-string labels, and results
\* that are missing, failed or no objects.
EmotionLabels ==
  {"hap", "happy", "joy", "excited", "neutral", "neu", "calm", "sad", "ang",
   "angry", "fear", "Happy", "bored", NotAString}
PostureSummaries ==
  {"excellent", "good", "poor", "bad", "Good posture", "excellent, not poor",
   "slouching", NotAString}
SignalsOver(labels) ==
  {Signal("label", l) : l \in labels}
    \cup {AbsentSignal, Signal("failed", NoLabel), Signal("nondict", NoLabel)}
FusionNlps ==
  {NlpDict(Some(Num(Milli(x))), Absent) :
     x \in {-100, 0, 500, 900, 1200, 1500, 1600, 72000, 150000}}
    \cup {NlpDict(Some(Str), Absent), NlpDict(Some(Null), Absent),
          NlpDict(Absent, Some(Num(Milli(30000)))), NlpDict(Absent, Absent),
          NlpString}
FusionInputs ==
  [nlp : FusionNlps, emotion : SignalsOver(EmotionLabels),
   posture : SignalsOver(PostureSummaries), tone : SignalsOver(EmotionLabels)]

\* Lines 74-77: the four sub-scores.
FU_Score ==
  /\ fu_pc = "input"
  /\ fu_sub' = [nlp |-> SubScore(_norm_similarity(fu_in.nlp)),
                emotion |-> _emotion_score(fu_in.emotion),
                posture |-> _posture_score(fu_in.posture),
                tone |-> _tone_score(fu_in.tone)]
  /\ fu_pc' = "scored"
  /\ UNCHANGED <<fu_in, fu_w, fu_out, svars, evars, fvars, ivars, lvars>>

\* Lines 79-103 and generate_feedback line 122: the weights, the final score
\* and its rating, when no sub-score raised.
FU_Merge ==
  /\ fu_pc = "scored"
  /\ \A k \in DOMAIN fu_sub : ~fu_sub[k].raised
  /\ fu_w' = fusion_weights(fu_sub.posture)
  /\ LET final_score == _merge_scores(fu_in.nlp, fu_in.emotion, fu_in.posture, fu_in.tone).v IN
     fu_out' = [final_score |-> final_score,
                qualitative_rating |-> _rating_from_score(final_score)]
  /\ fu_pc' = "merged"
  /\ UNCHANGED <<fu_in, fu_sub, svars, evars, fvars, ivars, lvars>>

\* ------------------------------------------- request parameters as received
\* A parameter is a text, written as the sequence of its characters; a
\* parameter that is missing is read as the empty text ((x or "")).
Blank == " "

\* str.strip: leading and trailing blanks are removed.
RECURSIVE text_strip(_)
text_strip(t) ==
  IF t = <<>> THEN <<>>
  ELSE IF Head(t) = Blank THEN text_strip(Tail(t))
  ELSE IF t[Len(t)] = Blank THEN text_strip(SubSeq(t, 1, Len(t) - 1))
  ELSE t

\* str.lower, on the letters of the model's texts.
lower_char(c) ==
  CASE c = "A" -> "a"
    [] c = "D" -> "d"
    [] c = "I" -> "i"
    [] OTHER -> c
text_lower(t) == [n \in 1..Len(t) |-> lower_char(t[n])]

\* The three parameters as the handlers normalise them (app.py:210-212,
\* 268-270, 617-619).
norm_email(r) == text_lower(text_strip(r.email))
norm_interview_id(r) == text_strip(r.interview_id)
norm_domain(r) == text_lower(text_strip(r.domain))

\* if not email or not interview_id or not domain
missing_identifier_email_only(r) == norm_email(r) = <<>>
missing_identifier(r) ==
  norm_email(r) = <<>> \/ norm_interview_id(r) = <<>> \/ norm_domain(r) = <<>>

\* The filter document {"email", "interview_id", "domain"} as one name.
RECURSIVE text_of(_)
text_of(t) == IF t = <<>> THEN "" ELSE Head(t) \o text_of(Tail(t))
session_key(r) ==
  IF missing_identifier(r) THEN NoKey
  ELSE text_of(norm_email(r)) \o "|" \o text_of(norm_interview_id(r))
         \o "|" \o text_of(norm_domain(r))

\* _domain_file / os.path.exists: the one domain that has a question file;
\* its question list is the variable questions.
KnownDomain == <<"d", "s">>
domain_file_exists(domain) == text_lower(domain) = KnownDomain

\* The parameters tried: a well-formed request and the requests that differ
\* from it in one parameter, by letter case, by blanks around it, by being
\* empty or blank, or by naming a domain without question file.
BaseRaw == [email |-> <<"a", "@", "x">>, interview_id |-> <<"i", "1">>, domain |-> <<"d", "s">>]
RawEmails == {<<>>, <<Blank, Blank>>, <<"A", "@", "x">>, <<Blank, "a", "@", "x">>}
RawInterviewIds == {<<>>, <<Blank>>, <<"I", "1">>}
RawDomains == {<<>>, <<"D", "s">>, <<"n", "o">>, <<Blank>>}
RawRequests ==
  {BaseRaw}
    \cup {[BaseRaw EXCEPT !.email = e] : e \in RawEmails}
    \cup {[BaseRaw EXCEPT !.interview_id = i] : i \in RawInterviewIds}
    \cup {[BaseRaw EXCEPT !.domain = d] : d \in RawDomains}

ServerError == [status |-> 500, success |-> FALSE]

\* get_next_question from the arrival of the request to its find_one: the
\* parameters are normalised and tested, the question file is loaded.
NQ_Request(p, r) ==
  /\ in_raw' = [in_raw EXCEPT ![p] = r]
  /\ IF ~missing_identifier(r) /\ ~domain_file_exists(norm_domain(r))
     THEN /\ pc[p] = "idle"                     \* _load_questions raises
          /\ req' = [req EXCEPT ![p] =
                       [op |-> "NextQuestion", key |-> session_key(r), result |-> "none"]]
          /\ pc' = [pc EXCEPT ![p] = "done"]
          /\ resp' = [resp EXCEPT ![p] = ServerError]
          /\ UNCHANGED <<questions, store, idx, evars, fvars, uvars, lvars>>
     ELSE get_next_question(p, session_key(r))

\* reset_progress, the whole handler.
Reset_Request(p, r) ==
  /\ in_raw' = [in_raw EXCEPT ![p] = r]
  /\ reset_progress(p, session_key(r))

\* The persistence step of generate_feedback_route up to its first upsert.
AR_Request(p, r, result) ==
  /\ in_raw' = [in_raw EXCEPT ![p] = r]
  /\ persist_ensure(p, session_key(r), result)

\* ------------------------------------------------- lazily loaded model handles
\* The requests are threads of one process: the module globals are shared,
\* and a thread can be interrupted between the test of a global and the
\* assignment to it (the loads read files and take seconds).

\* speech_to_text.get_whisper_model, line 14: the test of the global.
W_Test(p) ==
  /\ lz_pc[p] = "idle"
  /\ lz_pc' = [lz_pc EXCEPT ![p] =
                 IF lz_global["whisper"] = "None" THEN "w_load" ELSE "done"]
  /\ UNCHANGED <<lz_global, lz_built, svars, evars, fvars, uvars, ivars>>

\* Lines 16-18: whisper.load_model and the assignment; a load that raises
\* leaves the global as it is.
W_Load(p, ok) ==
  /\ lz_pc[p] = "w_load"
  /\ IF ok
     THEN /\ lz_global' = [lz_global EXCEPT !["whisper"] = "model"]
          /\ lz_built' = [lz_built EXCEPT !["whisper"] = @ + 1]
     ELSE UNCHANGED <<lz_global, lz_built>>
  /\ lz_pc' = [lz_pc EXCEPT ![p] = "done"]
  /\ UNCHANGED <<svars, evars, fvars, uvars, ivars>>

\* tone_analyzer._load_model_once, line 31: the test of the two globals.
T_Test(p) ==
  /\ lz_pc[p] = "idle"
  /\ lz_pc' = [lz_pc EXCEPT ![p] =
                 IF lz_global["extractor"] = "None" \/ lz_global["tone"] = "None"
                 THEN "t_extractor" ELSE "done"]
  /\ UNCHANGED <<lz_global, lz_built, svars, evars, fvars, uvars, ivars>>

\* Lines 38-40: a failed load sets both globals to None.
load_failed(g) == [g EXCEPT !["extractor"] = "None", !["tone"] = "None"]

\* Line 33: the feature extractor.
T_Extractor(p, ok) ==
  /\ lz_pc[p] = "t_extractor"
  /\ IF ok
     THEN /\ lz_global' = [lz_global EXCEPT !["extractor"] = "model"]
          /\ lz_built' = [lz_built EXCEPT !["extractor"] = @ + 1]
          /\ lz_pc' = [lz_pc EXCEPT ![p] = "t_model"]
     ELSE /\ lz_global' = load_failed(lz_global)
          /\ lz_pc' = [lz_pc EXCEPT ![p] = "done"]
          /\ UNCHANGED lz_built
  /\ UNCHANGED <<svars, evars, fvars, uvars, ivars>>

\* Lines 34-36: the classification model.
T_Model(p, ok) ==
  /\ lz_pc[p] = "t_model"
  /\ IF ok
     THEN /\ lz_global' = [lz_global EXCEPT !["tone"] = "model"]
          /\ lz_built' = [lz_built EXCEPT !["tone"] = @ + 1]
     ELSE /\ lz_global' = load_failed(lz_global)
          /\ UNCHANGED lz_built
  /\ lz_pc' = [lz_pc EXCEPT ![p] = "done"]
  /\ UNCHANGED <<svars, evars, fvars, uvars, ivars>>

\* ------------------------------------------------------------ specifications
\* Requests are numbered in the order in which their handlers start.
Begin(p) ==
  /\ \A q \in Procs : q < p => pc[q] # "idle"
  /\ \/ \E k \in Keys \cup {NoKey} : NQ_Find(p, k)
     \/ \E k \in Keys \cup {NoKey} : Reset(p, k)
     \/ \E k \in Keys \cup {NoKey}, r \in PerQ : AR_Ensure(p, k, r)
     \/ \E iv \in Interviews \cup {NoInterview} : FinalFeedback(p, iv)

Step(p) ==
  \/ NQ_Insert(p)
  \/ NQ_Update(p)
  \/ AR_Push(p)

\* No request is between two of its steps.
Quiet == \A p \in Procs : pc[p] \in {"idle", "done"}

\* Requests served concurrently: any interleaving of the handlers' steps.
Next == \E p \in Procs : Begin(p) \/ Step(p)

Spec == Init /\ [][Next]_vars

\* Requests served one after another: a request begins only when no other
\* request is in progress.
SeqNext == \E p \in Procs : (Quiet /\ Begin(p)) \/ Step(p)

SpecSeq == Init /\ [][SeqNext]_vars

\* One /evaluate_domain request, from its arrival to its response.
InitEval ==
  /\ questions = load_questions(0)
  /\ ProgressIdle
  /\ EvalIdle
  /\ FbIdle
  /\ FusionIdle
  /\ InputIdle
  /\ LazyIdle

NextEval ==
  \/ \E d \in Domains, u \in UserResponses : EV_Begin(d, u)
  \/ /\ ev_pc = "primary_call"
     /\ \E c \in Calls : \E t \in TextsOf(c) : \E o \in ObjsOf(t) :
          EV_Primary(Reply(c, t, o))
  \/ \E run \in LexicalRuns : EV_Lexical(run)
  \/ /\ ev_pc = "remote_call"
     /\ \E c \in Calls : \E t \in TextsOf(c) : \E o \in ObjsOf(t) :
          EV_Remote(Reply(c, t, o))

SpecEval == InitEval /\ [][NextEval]_vars

\* One /generate-feedback request, from its arrival to its response.
NextFb ==
  \/ \E k \in FbKeys, raw \in NlpInputs, sig \in SignalInputs : FB_Begin(k, raw, sig)
  \/ /\ fb_pc = "local_call"
     /\ \E c \in Calls : \E t \in GenTextsOf(c) : \E o \in CoachObjsOf(t) :
          FB_Local(Reply(c, t, o))
  \/ /\ fb_pc = "remote_call"
     /\ \E c \in Calls : \E t \in GenTextsOf(c) : \E o \in GenObjsOf(t) :
          FB_Remote(Reply(c, t, o))
  \/ \E fault \in StoreFaults : FB_Persist(fault)

SpecFb == InitEval /\ [][NextFb]_vars

\* One request to either chain.
NextChains ==
  \/ fb_pc = "idle" /\ NextEval
  \/ ev_pc = "idle" /\ NextFb

SpecChains == InitEval /\ [][NextChains]_vars

\* The same request with every stage call returning: the remote calls are
\* made with a timeout (llm_client.py:33-38, app.py:405-471 and 636-714), so
\* a request that has arrived is never left waiting in a stage for ever.
\* The replies are the texts of each shape: no text, one token of each kind
\* (a bare scalar, prose, a lone brace or member), and one token of each kind
\* between braces (an object of one member, with every object it can stand
\* for, and the texts no object can be read from).
LiveTexts ==
  {<<>>} \cup {<<tok>> : tok \in Tokens} \cup {<<"{", tok, "}">> : tok \in Tokens}
LiveTextsOf(c) == IF c = "ok" THEN LiveTexts ELSE {<<>>}

NextEvalLive ==
  \/ \E d \in Domains, u \in UserResponses : EV_Begin(d, u)
  \/ /\ ev_pc = "primary_call"
     /\ \E c \in Calls : \E t \in LiveTextsOf(c) : \E o \in ObjsOf(t) :
          EV_Primary(Reply(c, t, o))
  \/ \E run \in LexicalRuns : EV_Lexical(run)
  \/ /\ ev_pc = "remote_call"
     /\ \E c \in Calls : \E t \in LiveTextsOf(c) : \E o \in ObjsOf(t) :
          EV_Remote(Reply(c, t, o))

NextFbLive ==
  \/ \E k \in FbKeys, raw \in NlpInputs, sig \in SignalInputs : FB_Begin(k, raw, sig)
  \/ /\ fb_pc = "local_call"
     /\ \E c \in Calls : \E t \in LiveTextsOf(c) : \E o \in CoachObjsOf(t) :
          FB_Local(Reply(c, t, o))
  \/ /\ fb_pc = "remote_call"
     /\ \E c \in Calls : \E t \in LiveTextsOf(c) : \E o \in GenObjsOf(t) :
          FB_Remote(Reply(c, t, o))
  \/ \E fault \in StoreFaults : FB_Persist(fault)

NextChainsLive ==
  \/ fb_pc = "idle" /\ NextEvalLive
  \/ ev_pc = "idle" /\ NextFbLive

ChainsFairness ==
  /\ WF_vars(ev_pc # "idle" /\ NextEvalLive)
  /\ WF_vars(fb_pc # "idle" /\ NextFbLive)

SpecChainsLive == InitEval /\ [][NextChainsLive]_vars /\ ChainsFairness

\* One run of the score fusion on given analysis results.
InitFusion ==
  /\ questions = load_questions(0)
  /\ ProgressIdle
  /\ EvalIdle
  /\ FbIdle
  /\ fu_pc = "input"
  /\ fu_in \in FusionInputs
  /\ fu_sub = NoFusionIn
  /\ fu_w = <<>>
  /\ fu_out = NoFusionOut
  /\ InputIdle
  /\ LazyIdle

NextFusion == FU_Score \/ FU_Merge

SpecFusion == InitFusion /\ [][NextFusion]_vars

\* Requests to the three handlers that take a session key, with their
\* parameters as received; the requests are served concurrently.
InputRequests == 2
InputProcs == 1..InputRequests

NextInput ==
  \/ \E p \in InputProcs :
       /\ pc[p] = "idle"
       /\ \A q \in InputProcs : q < p => pc[q] # "idle"
       /\ \E r \in RawRequests :
            \/ NQ_Request(p, r)
            \/ Reset_Request(p, r)
            \/ \E result \in PerQ : AR_Request(p, r, result)
  \/ \E p \in InputProcs : Step(p)

SpecInput == Init /\ [][NextInput]_vars

\* Requests that need a model handle (/transcribe, /analyze_tone), served by
\* the threads of one process.
NextLazy ==
  \E p \in Procs :
    \/ W_Test(p)
    \/ \E ok \in BOOLEAN : W_Load(p, ok)
    \/ T_Test(p)
    \/ \E ok \in BOOLEAN : T_Extractor(p, ok)
    \/ \E ok \in BOOLEAN : T_Model(p, ok)

SpecLazy == Init /\ [][NextLazy]_vars

\* The requests that load a question set: NextQuestion requests with their
\* parameters as received, or one /evaluate_domain request.
NextLoad ==
  \/ ev_pc = "idle" /\ NextInput
  \/ (\A p \in Procs : pc[p] = "idle") /\ NextEval

SpecLoad == Init /\ [][NextLoad]_vars

\* ===================================================== question progress
Min(a, b) == IF a <= b THEN a ELSE b

\* The documents of the store that carry the key.
RecordsOf(k) == {i \in 1..Len(store) : store[i].key = k}

\* The current_question the handlers read for the key (0 without a record).
StoredIndex(k) ==
  IF find_one(store, k) = 0 THEN 0
  ELSE doc_current_question(store[find_one(store, k)])

\* No Reset on the key has been issued.
NoResetOn(k) == \A p \in Procs : ~(req[p].op = "Reset" /\ req[p].key = k)

\* The completed NextQuestion calls on the key, and those answered with a question.
NQDone(k) ==
  {p \in Procs : req[p].op = "NextQuestion" /\ req[p].key = k /\ pc[p] = "done"}
NQServed(k) == {p \in NQDone(k) : resp[p].status = 200 /\ ~resp[p].done}

\* C1: with requests served one after another, a question set of length
\* T >= 1 and no Reset on the key, after N completed NextQuestion calls the
\* stored current_question is min(N, T).
C1_IndexIsMinCallsTotal ==
  \A k \in Keys :
    (Quiet /\ NoResetOn(k) /\ total >= 1)
      => StoredIndex(k) = Min(Cardinality(NQDone(k)), total)

\* C1 witness: more calls than questions were made on a key and the index
\* stopped at the length of a set of at least two questions.
C1_Witness ==
  \E k \in Keys :
    /\ Quiet /\ NoResetOn(k) /\ total >= 2
    /\ Cardinality(NQDone(k)) > total
    /\ StoredIndex(k) = total

\* C2: without Reset on the key, no two NextQuestion calls on it are answered
\* with the same question index, whatever the interleaving.
C2_NoIndexServedTwice ==
  \A k \in Keys :
    NoResetOn(k) =>
      \A p, q \in NQServed(k) : p # q => resp[p].index # resp[q].index

\* C3: without Reset on the key, the stored current_question of a record of
\* the key never decreases from one store state to the next.
C3_IndexNeverDecreases ==
  [][\A k \in Keys :
       NoResetOn(k)' =>
         \A i \in RecordsOf(k) :
           doc_current_question(store'[i]) >= doc_current_question(store[i])]_vars

\* C4: when all NextQuestion calls on a key have completed (no Reset, T >= 1),
\* the stored index is the number of calls that were answered with a question,
\* and it is min(N, T) for the N calls made.
C4_NoLostOrDoubledAdvance ==
  \A k \in Keys :
    (Quiet /\ NoResetOn(k) /\ total >= 1) =>
      /\ StoredIndex(k) = Cardinality(NQServed(k))
      /\ StoredIndex(k) = Min(Cardinality(NQDone(k)), total)

\* C5: in every reachable store state, under any interleaving of NextQuestion,
\* Reset and AppendResult, the current_question of every record is in 0..T.
C5_IndexWithinBounds ==
  \A i \in 1..Len(store) :
    /\ doc_current_question(store[i]) >= 0
    /\ doc_current_question(store[i]) <= total

\* C5 witness: a record stands at the upper bound T >= 1 while a Reset and
\* an AppendResult have completed as well.
C5_Witness ==
  /\ total >= 1
  /\ \E i \in 1..Len(store) : doc_current_question(store[i]) = total
  /\ \E p \in Procs : req[p].op = "Reset" /\ req[p].key \in Keys /\ pc[p] = "done"
  /\ \E p \in Procs : req[p].op = "AppendResult" /\ req[p].key \in Keys /\ pc[p] = "done"

\* The step of request p is a NextQuestion call on key k that finds a record
\* whose stored current_question is >= the question-set length.
NQOnExhausted(p, k) ==
  /\ pc[p] = "idle" /\ pc'[p] # "idle"
  /\ req'[p].op = "NextQuestion" /\ req'[p].key = k
  /\ find_one(store, k) # 0
  /\ StoredIndex(k) >= total

\* C6 as stated: a NextQuestion call that finds a record with stored index
\* >= the question-set length answers done=true with the total and leaves the
\* store as it was.
C6_ExhaustedReturnsDone ==
  [][\A p \in Procs, k \in Keys :
       NQOnExhausted(p, k) =>
         /\ store' = store
         /\ pc'[p] = "done"
         /\ resp'[p] = DoneResp(total)]_vars

\* C6 amended: the same for a non-empty question set; against an empty set
\* the call is answered with the 400 error and the store is left as it was.
C6_ExhaustedReturnsDoneNonEmpty ==
  [][\A p \in Procs, k \in Keys :
       NQOnExhausted(p, k) =>
         /\ store' = store
         /\ pc'[p] = "done"
         /\ resp'[p] = IF total >= 1 THEN DoneResp(total) ELSE BadRequest]_vars

\* C6 witness: a NextQuestion call on a key was answered done=true while
\* its record, results included, stands at the length of a non-empty set.
C6_Witness ==
  \E k \in Keys :
    /\ total >= 1
    /\ find_one(store, k) # 0
    /\ StoredIndex(k) = total
    /\ doc_results(store[find_one(store, k)]) # <<>>
    /\ \E p \in NQDone(k) : resp[p] = DoneResp(total)

\* C7: with requests served one after another and no Reset on the key, the
\* k-th NextQuestion call on it (1 <= k <= T) is answered with the question at
\* position k of the question set, display index k and total T.
C7_ServedInOrder ==
  [][\A p \in Procs :
       (pc[p] = "nq_update" /\ pc'[p] = "done" /\ NoResetOn(req[p].key)) =>
         LET n == Cardinality(NQDone(req[p].key)) + 1 IN
           /\ n <= total
           /\ resp'[p].status = 200 /\ ~resp'[p].done
           /\ resp'[p].index = n
           /\ resp'[p].total = total
           /\ resp'[p].id = questions[n].id
           /\ resp'[p].text = questions[n].text]_vars

\* C7 witness: the last question of a set of at least two questions has been
\* served, after the ones before it.
C7_Witness ==
  \E k \in Keys :
    /\ total >= 2 /\ NoResetOn(k)
    /\ Cardinality(NQServed(k)) = total
    /\ \E p \in NQServed(k) : resp[p].index = total /\ resp[p].id = questions[total].id

\* C8: the store never holds more than one record for a SessionKey.
C8_OneRecordPerKey == \A k \in Keys : Cardinality(RecordsOf(k)) <= 1

\* =================================================== domain-answer evaluation
\* The stage has been entered.
Tried(stage) == \E i \in 1..Len(ev_tried) : ev_tried[i] = stage

\* Neither the reply text nor its brace-delimited part parses.
Unparseable(reply) ==
  /\ ~json_loads(reply.text, reply.obj).ok
  /\ \/ find_first(reply.text, "{") = 0
     \/ find_last(reply.text, "}") <= find_first(reply.text, "{")
     \/ ~json_loads(brace_candidate(reply.text), reply.obj).ok

\* The object the reply parses to (directly or by its brace-delimited part).
ParsedObj(reply) ==
  IF json_loads(reply.text, reply.obj).ok
  THEN json_loads(reply.text, reply.obj).obj
  ELSE json_loads(brace_candidate(reply.text), reply.obj).obj

\* The reply carries a score that is no number or lies outside [0, 100].
BadScore(reply) ==
  /\ ~Unparseable(reply)
  /\ LET o == ParsedObj(reply) IN
     \E v \in {o.similarity_score, o.score} :
       /\ v # Absent
       /\ (o.similarity_score # Absent => v = o.similarity_score)
       /\ v[1].kind # "num" \/ v[1].n < 0 \/ v[1].n > 100

\* The remote stage that received the reply failed: the call errored or timed
\* out, the output cannot be parsed, or the score is non-numeric or out of range.
RemoteStageFailed(reply) ==
  /\ reply.call # "none"
  /\ \/ reply.call \in {"error", "timeout"}
     \/ reply.call = "ok" /\ Unparseable(reply)
     \/ reply.call = "ok" /\ BadScore(reply)

\* C9: whenever a stage of the chain Primary, LocalLexical, RemoteJudge,
\* Default fails, the next stage is the one attempted; in particular a failed
\* remote call or an unparseable reply inside Primary leads to LocalLexical.
C9_FailedStageLeadsToNext ==
  /\ RemoteStageFailed(ev_primary) => Tried("LocalLexical")
  /\ (ev_lexical # NoLexical /\ ~ev_lexical.ok) => Tried("RemoteJudge")
  /\ RemoteStageFailed(ev_remote) => Tried("Default")

\* C10: a request with a non-empty domain is always answered with status 200
\* and success; when every stage of the chain has failed, the evaluation is
\* the declared default, similarity_score 50.0 with the generic feedback text.
C10_AllFailGivesDefault ==
  (ev_pc = "responded" /\ ev_req.domain # "") =>
    /\ ev_resp.status = 200 /\ ev_resp.success
    /\ Tried("Default") =>
         /\ ev_tried = <<"Primary", "LocalLexical", "RemoteJudge", "Default">>
         /\ ev_resp.score = 50
         /\ ev_resp.feedback = "generic"

\* C10 witness: Primary, LocalLexical and RemoteJudge have all failed, the
\* last one by a timeout of its remote call, and the request is answered.
C10_Witness ==
  /\ ev_pc = "responded" /\ ev_req.domain = "known"
  /\ ev_tried = <<"Primary", "LocalLexical", "RemoteJudge", "Default">>
  /\ ~ev_lexical.ok
  /\ ev_remote.call = "timeout"
  /\ ev_resp = safe_default

\* ============================================== score ranges of the chains
\* C12: whichever stage produced the outcome of a domain-answer evaluation,
\* the returned similarity_score lies in [0, 100].
C12_SimilarityScoreInRange ==
  (ev_pc = "responded" /\ ev_resp.status = 200) =>
    (ev_resp.score >= 0 /\ ev_resp.score <= 100)

\* ========================================================= stored results
\* The step is one of the store operations of an AppendResult of request p.
ARStep(p) == pc[p] # pc'[p] /\ req'[p].op = "AppendResult"

\* The step is a Reset.
ResetStep == \E p \in Procs : pc[p] # pc'[p] /\ req'[p].op = "Reset"

IsPrefix(a, b) == Len(a) <= Len(b) /\ SubSeq(b, 1, Len(a)) = a

Occurs(r, rs) == \E n \in 1..Len(rs) : rs[n] = r

\* The documents of store s that carry the key.
RecordsIn(s, k) == {i \in 1..Len(s) : s[i].key = k}

\* C15: no store operation of AppendResult changes the stored
\* current_question of a record: every record that existed before the step
\* has the same current_question field after it.
C15_AppendKeepsIndex ==
  [][\A p \in Procs :
       ARStep(p) =>
         /\ Len(store') >= Len(store)
         /\ \A i \in 1..Len(store) :
              /\ store'[i].key = store[i].key
              /\ store'[i].current_question = store[i].current_question]_vars

\* C15 witness: an AppendResult has completed on a record whose stored
\* current_question is 1, and its result is in the record.
C15_Witness ==
  \E p \in Procs, i \in 1..Len(store) :
    /\ req[p].op = "AppendResult" /\ pc[p] = "done"
    /\ store[i].key = req[p].key
    /\ store[i].current_question = Some(1)
    /\ Occurs(req[p].result, doc_results(store[i]))

\* C16: appending a PerQuestionResult that the record of the key already
\* holds leaves the store as it was.
C16_AppendIsIdempotent ==
  [][\A p \in Procs :
       (/\ pc[p] = "ar_push" /\ pc'[p] = "done"
        /\ find_one(store, req[p].key) # 0
        /\ Occurs(req[p].result, doc_results(store[find_one(store, req[p].key)])))
         => store' = store]_vars

\* C18: with requests served one after another, (a) the first store
\* operation of an AppendResult on a key without a record creates the one
\* record of the key, with empty results and no index; (b) the push onto that
\* record leaves exactly the appended result in it; (c) a NextQuestion that
\* finds a record without an index (question set non-empty) reads index 0,
\* and (d) its update answers with the first question and keeps the results.
C18_AppendCreatesThenFirstQuestion ==
  [][\A p \in Procs :
       LET k == req'[p].key
           i == find_one(store, k)
           j == find_one(store', k)
       IN
       /\ (ARStep(p) /\ pc[p] = "idle" /\ k # NoKey /\ i = 0) =>
            /\ Cardinality(RecordsIn(store', k)) = 1
            /\ store'[j] = [key |-> k, current_question |-> Absent, results |-> Some(<<>>)]
       /\ (ARStep(p) /\ pc[p] = "ar_push" /\ i # 0
             /\ store[i].current_question = Absent /\ doc_results(store[i]) = <<>>) =>
            /\ Cardinality(RecordsIn(store', k)) = 1
            /\ doc_results(store'[j]) = <<req[p].result>>
            /\ store'[j].current_question = Absent
       /\ (/\ pc[p] = "idle" /\ pc'[p] # "idle" /\ req'[p].op = "NextQuestion"
           /\ total >= 1 /\ i # 0 /\ store[i].current_question = Absent) =>
            /\ pc'[p] = "nq_update" /\ idx'[p] = 0
            /\ store' = store
       /\ (pc[p] = "nq_update" /\ pc'[p] = "done" /\ idx[p] = 0 /\ i # 0) =>
            /\ resp'[p] = QuestionResp(1, total, questions[1])
            /\ doc_results(store'[j]) = doc_results(store[i])
            /\ store'[j].current_question = Some(1)]_vars

\* C18 witness: a NextQuestion is in progress on a record that an
\* AppendResult created: the record has one result and no index, and the
\* request has read index 0.
C18_Witness ==
  \E p \in Procs, i \in 1..Len(store) :
    /\ pc[p] = "nq_update" /\ idx[p] = 0
    /\ store[i].key = req[p].key
    /\ store[i].current_question = Absent
    /\ Len(doc_results(store[i])) = 1

\* C19: a Reset on a key leaves exactly one record for the key, with
\* current_question 0 and empty results.
C19_ResetLeavesOneFreshRecord ==
  [][\A p \in Procs :
       (pc[p] = "idle" /\ pc'[p] = "done"
          /\ req'[p].op = "Reset" /\ req'[p].key # NoKey) =>
         /\ Cardinality(RecordsIn(store', req'[p].key)) = 1
         /\ \A i \in RecordsIn(store', req'[p].key) :
              /\ store'[i].current_question = Some(0)
              /\ store'[i].results = Some(<<>>)]_vars

\* C20: a step that is not a Reset removes no record and leaves the results
\* of every record a prefix of what they are after the step.
C20_ResultsOnlyGrowAtEnd ==
  [][~ResetStep =>
       /\ Len(store') >= Len(store)
       /\ \A i \in 1..Len(store) :
            /\ store'[i].key = store[i].key
            /\ IsPrefix(doc_results(store[i]), doc_results(store'[i]))]_vars

\* C20 witness: without any Reset, a record holds two different results in
\* the order of their appends and a NextQuestion has advanced its index.
C20_Witness ==
  /\ \A p \in Procs : req[p].op # "Reset"
  /\ \E i \in 1..Len(store) :
       /\ Len(doc_results(store[i])) = 2
       /\ doc_results(store[i])[1] # doc_results(store[i])[2]
       /\ store[i].current_question = Some(1)

\* ======================================================= the fallback chains
EvOrder == <<"Primary", "LocalLexical", "RemoteJudge", "Default">>
FbOrder == <<"Local", "Remote", "LastResort">>

\* What a stage of the evaluation chain made of what it was given.
EvStageOutcome(stage) ==
  CASE stage = "Primary" ->
         IF strip(ev_req.user_response) = "" THEN Outcome(0, "no_response")
         ELSE evaluate_domain_response(ev_primary)
    [] stage = "LocalLexical" -> lexical_stage(ev_lexical)
    [] stage = "RemoteJudge" -> remote_judge(ev_remote)
    [] stage = "Default" -> Outcome(50, "generic")

\* The fused score of the request, as the local generator computes it.
FbLocalScore ==
  _merge_scores(normalize_nlp(fb_req.nlp).nlp, fb_req.emotion, fb_req.posture, fb_req.tone)

\* The stage of the feedback chain raised.
FbStageRaised(stage) ==
  CASE stage = "Local" -> FbLocalScore.raised
    [] stage = "Remote" -> fb_remote.out.raised
    [] stage = "LastResort" -> FALSE

\* The feedback chain has produced its result.
FbChainDone == fb_pc \in {"persist", "responded"} /\ fb_tried # <<>>

\* C11: in both chains the stages entered so far are an initial part of the
\* declared order, every stage before the last one entered has failed, and
\* once the chain has ended the last stage entered has succeeded and the
\* outcome returned is its outcome.
C11_FirstSuccessWins ==
  /\ ev_tried = SubSeq(EvOrder, 1, Len(ev_tried))
  /\ \A n \in 1..(Len(ev_tried) - 1) : EvStageOutcome(ev_tried[n]).raised
  /\ (ev_pc = "responded" /\ ev_tried # <<>>) =>
       LET out == EvStageOutcome(ev_tried[Len(ev_tried)]) IN
       /\ ~out.raised
       /\ ev_resp.score = out.score /\ ev_resp.feedback = out.feedback
  /\ fb_tried = SubSeq(FbOrder, 1, Len(fb_tried))
  /\ \A n \in 1..(Len(fb_tried) - 1) : FbStageRaised(fb_tried[n])
  /\ FbChainDone =>
       /\ ~FbStageRaised(fb_tried[Len(fb_tried)])
       /\ fb_tried = <<"Local">> =>
            /\ fb_result.final_score = FbLocalScore.v
            /\ fb_result.qualitative_rating = _rating_from_score(FbLocalScore.v)
            /\ fb_result.feedback \in {"model_feedback", "local_fallback"}
       /\ fb_tried = <<"Local", "Remote">> => fb_result = fb_remote.out.result
       /\ fb_tried = FbOrder =>
            fb_result = last_resort(normalize_nlp(fb_req.nlp).nlp)
  /\ (fb_pc = "responded" /\ fb_tried # <<>>) =>
       /\ fb_resp.final_score = fb_result.final_score
       /\ fb_resp.qualitative_rating = fb_result.qualitative_rating
       /\ fb_resp.feedback = fb_result.feedback

\* C11 witness: the local generator raised, the remote generator succeeded
\* and its result is the one returned; the last resort was not entered.
C11_Witness ==
  /\ fb_pc = "responded"
  /\ fb_tried = <<"Local", "Remote">>
  /\ fb_remote.call = "ok"
  /\ fb_resp.feedback = "model_comment"
  /\ fb_resp.qualitative_rating = "Poor"

\* C13: whichever stage of the feedback chain produced the result, the
\* returned final_score lies in [0, 1].
C13_FinalScoreInRange ==
  fb_pc = "responded" => (fb_resp.final_score >= 0 /\ fb_resp.final_score <= ONE)

RatingTexts == {"Excellent", "Good", "Average", "Poor"}
FeedbackTexts ==
  {"model_feedback", "model_comment", "str_parsed", "local_fallback",
   "basic_fallback", "system_error"}

\* C14: every /generate-feedback request is answered with status 200 and
\* success, carrying a number as final_score, a rating and a feedback text;
\* when the chain ran, whatever failed in it or in the store, the response
\* carries no error.
C14_AlwaysSuccessful ==
  fb_pc = "responded" =>
    /\ fb_resp.status = 200 /\ fb_resp.success
    /\ fb_resp.final_score \in Int
    /\ fb_resp.qualitative_rating \in RatingTexts
    /\ fb_resp.feedback \in FeedbackTexts
    /\ fb_tried # <<>> => ~fb_resp.error

\* C14 witness: the local generator raised, the remote call timed out, the
\* store could not be reached, and the request is answered.
C14_Witness ==
  /\ fb_pc = "responded" /\ fb_req.key # NoKey
  /\ fb_tried = FbOrder
  /\ fb_remote.call = "timeout"
  /\ fb_fault = "connect"

\* C17: wherever the store failed in the persistence step, the response is
\* the one the same result gets when the store does not fail.
C17_StoreFailureKeepsResponse ==
  (fb_pc = "responded" /\ fb_tried # <<>>) =>
    fb_resp = persist_response(fb_result, "none")

\* C17 witness: the upsert went through and the push failed: the record is
\* there without the result, and the response carries the model's feedback.
C17_Witness ==
  /\ fb_pc = "responded" /\ fb_fault = "push"
  /\ \E i \in 1..Len(store) : store[i].key = fb_req.key /\ doc_results(store[i]) = <<>>
  /\ fb_resp.feedback = "model_feedback"

\* ============================================================= score fusion
\* Near(x, y, tol): x and y differ by tol at most.
Near(x, y, tol) == x - y <= tol /\ y - x <= tol
\* The weight w, written with three decimals, is m thousandths.
WeightIs(w, m) == Near(2 * 1000 * w, 2 * m * WeightOne, WeightOne)

\* C21: in both cases (posture sub-score present, posture sub-score absent)
\* the weights used in the weighted sum are non-negative and add up to 1.0.
C21_WeightsSumToOne ==
  fu_pc = "merged" =>
    /\ \A k \in DOMAIN fu_w : fu_w[k] >= 0
    /\ weight_sum(fu_w) = WeightOne
    /\ {"nlp", "emotion", "tone"} \subseteq DOMAIN fu_w
    /\ ("posture" \in DOMAIN fu_w) <=> (fu_sub.posture # NoSubScore)

\* C21 witness: a fusion without posture sub-score has been carried out.
C21_Witness ==
  /\ fu_pc = "merged"
  /\ fu_sub.posture = NoSubScore
  /\ DOMAIN fu_w = {"nlp", "emotion", "tone"}

\* The sub-score values a raised sub-score is drawn from.
ScoreGrid == {Milli(x) : x \in {0, 250, 500, 600, 700, 800, 900, 1000}}

\* The sub-scores of the state with the one named k replaced by v.
FusedWith(k, v) ==
  weighted_sum(fu_w,
               IF k = "nlp" THEN v ELSE fu_sub.nlp.v,
               IF k = "emotion" THEN v ELSE fu_sub.emotion.v,
               IF k = "tone" THEN v ELSE fu_sub.tone.v,
               IF k = "posture" THEN v ELSE fu_sub.posture.v)

\* C22: replacing one sub-score by a larger value of [0, 1] (by a smaller
\* one), the others and the presence of posture unchanged, gives a final
\* score that is not smaller (not larger).
C22_FusionMonotone ==
  fu_pc = "merged" =>
    /\ FusedWith("nlp", fu_sub.nlp.v) = fu_out.final_score
    /\ \A k \in DOMAIN fu_w : \A v \in ScoreGrid :
         /\ v >= fu_sub[k].v => FusedWith(k, v) >= fu_out.final_score
         /\ v <= fu_sub[k].v => FusedWith(k, v) <= fu_out.final_score

\* C22 witness: a fusion with all four sub-scores present, none of them at
\* an end of [0, 1], so that each can be raised and lowered.
C22_Witness ==
  /\ fu_pc = "merged"
  /\ fu_sub.posture = SubScore(Milli(800))
  /\ fu_sub.nlp = SubScore(Milli(500))
  /\ fu_sub.emotion = SubScore(Milli(600))
  /\ fu_sub.tone = SubScore(Milli(900))

\* C23 as stated: with posture absent the weights are, to three decimals,
\* nlp 0.764, emotion 0.176, tone 0.059.
C23_WeightsWithoutPosture ==
  (fu_pc = "merged" /\ fu_sub.posture = NoSubScore) =>
    /\ WeightIs(fu_w.nlp, 764)
    /\ WeightIs(fu_w.emotion, 176)
    /\ WeightIs(fu_w.tone, 59)

\* C23 amended: with posture absent the weights are, to three decimals,
\* nlp 0.722, emotion 0.167, tone 0.111 (13/18, 3/18 and 2/18).
C23_WeightsWithoutPostureAmended ==
  (fu_pc = "merged" /\ fu_sub.posture = NoSubScore) =>
    /\ WeightIs(fu_w.nlp, 722)
    /\ WeightIs(fu_w.emotion, 167)
    /\ WeightIs(fu_w.tone, 111)
    /\ fu_w.nlp * 18 = WeightOne * 13
    /\ fu_w.emotion * 18 = WeightOne * 3
    /\ fu_w.tone * 18 = WeightOne * 2

\* C23 witness: the posture analysis reported failure and the weights have
\* been computed.
C23_Witness ==
  /\ fu_pc = "merged"
  /\ fu_in.posture = Signal("failed", NoLabel)
  /\ "posture" \notin DOMAIN fu_w

\* The sub-scores of the example: nlp 0.9, emotion 0.8, tone 0.8, no posture.
ExampleSubScores ==
  /\ fu_sub.nlp = SubScore(Milli(900))
  /\ fu_sub.emotion = SubScore(Milli(800))
  /\ fu_sub.tone = SubScore(Milli(800))
  /\ fu_sub.posture = NoSubScore

\* C24 as stated: for the example the final score is 0.85 to two decimals
\* and the label is "Excellent".
C24_ExampleScore ==
  (fu_pc = "merged" /\ ExampleSubScores) =>
    /\ Near(fu_out.final_score, Milli(850), Milli(5))
    /\ fu_out.qualitative_rating = "Excellent"

\* C24 amended: for the example the final score is 0.872 to three decimals
\* (157/180) and the label is "Excellent".
C24_ExampleScoreAmended ==
  (fu_pc = "merged" /\ ExampleSubScores) =>
    /\ Near(fu_out.final_score, Milli(872), Milli(1))
    /\ fu_out.final_score * 180 = ONE * 157
    /\ fu_out.qualitative_rating = "Excellent"

\* C24 witness: the example has been fused, from a neutral face, a calm
\* voice and a failed posture analysis.
C24_Witness ==
  /\ fu_pc = "merged" /\ ExampleSubScores
  /\ fu_in.emotion = Signal("label", "neutral")
  /\ fu_in.tone = Signal("label", "calm")
  /\ fu_in.posture = Signal("failed", NoLabel)

\* The analysis results of the state with the one of modality m replaced by
\* a result that is missing from the request.
WithAbsent(m) == [fu_in EXCEPT ![m] = AbsentSignal]
SubScoresOf(in) ==
  [nlp |-> SubScore(_norm_similarity(in.nlp)),
   emotion |-> _emotion_score(in.emotion),
   posture |-> _posture_score(in.posture),
   tone |-> _tone_score(in.tone)]

\* C28: for each of emotion, tone and posture, a result reporting
\* success=false and a result missing from the request give the same
\* sub-score, the same fusion weights and the same final score, the other
\* inputs being equal.
C28_FailureLikeAbsence ==
  fu_pc = "merged" =>
    \A m \in {"emotion", "tone", "posture"} :
      fu_in[m] = Signal("failed", NoLabel) =>
        /\ SubScoresOf(WithAbsent(m))[m] = fu_sub[m]
        /\ fusion_weights(SubScoresOf(WithAbsent(m)).posture) = fu_w
        /\ _merge_scores(WithAbsent(m).nlp, WithAbsent(m).emotion,
                         WithAbsent(m).posture, WithAbsent(m).tone).v
             = fu_out.final_score

\* The sub-scores a posture result that is present can contribute.
PostureScores == {Milli(900), Milli(800), Milli(600), Milli(700)}

\* C29: the posture weight is removed and shared out exactly when the posture
\* sub-score is absent, which is the case when the analyzer reported failure;
\* a posture result that is present, recognised or not, contributes 0.9, 0.8,
\* 0.6 or 0.7 with the base weight 0.10, the other weights being the base
\* weights too.
C29_PostureWeightRemovedOnFailure ==
  fu_pc = "merged" =>
    /\ ("posture" \notin DOMAIN fu_w) <=> (fu_sub.posture = NoSubScore)
    /\ fu_in.posture.kind = "failed" =>
         /\ fu_sub.posture = NoSubScore
         /\ DOMAIN fu_w = {"nlp", "emotion", "tone"}
         /\ fu_w.nlp * 18 = WeightOne * 13
         /\ fu_w.emotion * 18 = WeightOne * 3
         /\ fu_w.tone * 18 = WeightOne * 2
    /\ fu_in.posture.kind \in {"label", "absent"} =>
         /\ fu_sub.posture.v \in PostureScores
         /\ \A k \in DOMAIN BaseWeights : fu_w[k] * 100 = BaseWeights[k] * WeightOne
         /\ fu_in.posture.label \in {"slouching", NoLabel} => fu_sub.posture.v = Milli(700)

\* C29 witness: a posture result that is present and not recognised has
\* contributed the default sub-score with the weight 0.10.
C29_Witness ==
  /\ fu_pc = "merged"
  /\ fu_in.posture = Signal("label", "slouching")
  /\ fu_sub.posture = SubScore(Milli(700))
  /\ fu_w.posture * 10 = WeightOne

\* The table of the labels shared by emotion and tone.
SharedLabels == {"happy", "excited", "neutral", "calm", "sad", "angry", "fear"}
SharedTable(label) ==
  IF label \in {"happy", "excited"} THEN Milli(900)
  ELSE IF label \in {"neutral", "calm"} THEN Milli(800)
  ELSE IF label \in {"sad", "angry", "fear"} THEN Milli(600)
  ELSE Milli(700)

\* C30: for every label of {happy, excited, neutral, calm, sad, angry, fear}
\* the emotion sub-score and the tone sub-score are equal, 0.9 for
\* happy/excited, 0.8 for neutral/calm, 0.6 for sad/angry/fear; a label that
\* is not recognised and a failed analysis give 0.7.
C30_OneLabelTable ==
  fu_pc \in {"scored", "merged"} =>
    \A m \in {"emotion", "tone"} :
      /\ (fu_in[m].kind = "label" /\ fu_in[m].label \in SharedLabels \cup {"bored"})
           => fu_sub[m] = SubScore(SharedTable(fu_in[m].label))
      /\ fu_in[m].kind = "failed" => fu_sub[m] = SubScore(Milli(700))

\* ============================================================ rating bands
\* C25: in every response of the feedback-generation chain, whichever stage
\* produced the result, qualitative_rating is the band of the returned
\* final_score under the banding 0.80 / 0.65 / 0.45, and the other function
\* that labels a 0-1 score gives that label too.
C25_RatingIsBandOfScore ==
  fb_pc = "responded" =>
    /\ fb_resp.qualitative_rating = _rating_from_score(fb_resp.final_score)
    /\ qualitative_feedback(fb_resp.final_score) = _rating_from_score(fb_resp.final_score)

\* ====================================================== the empty answer
\* C26: an evaluation of an empty or blank candidate text is answered with
\* similarity_score 0.0 and the no-response text by the Primary stage, and no
\* remote call and no later stage has taken place.
C26_EmptyAnswerScoresZero ==
  (ev_tried # <<>> /\ ev_req.user_response \in {"", "  "}) =>
    /\ ev_pc = "responded"
    /\ ev_resp = EvalOk(Outcome(0, "no_response"))
    /\ ev_resp.score = 0 /\ ev_resp.feedback = "no_response"
    /\ ev_tried = <<"Primary">>
    /\ ev_primary = NoReply /\ ev_lexical = NoLexical /\ ev_remote = NoReply

\* C26 witness: a request with a blank candidate text has been answered by
\* the evaluation.
C26_Witness ==
  /\ ev_pc = "responded"
  /\ ev_req = [domain |-> "known", user_response |-> "  "]
  /\ ev_tried = <<"Primary">>
  /\ ev_resp.score = 0

\* =================================================== parsing of model output
\* The reply text is no JSON, and its part from the first "{" to the last "}"
\* is a JSON object.
ExtractedOnly(reply) ==
  /\ reply.call = "ok"
  /\ ~json_loads(reply.text, reply.obj).ok
  /\ ~Unparseable(reply)

\* C27: a reply that is no JSON but holds a JSON object between its first "{"
\* and its last "}" is parsed to that object by both parsers, and the Primary
\* stage that received it succeeds; a reply of which neither the text nor the
\* extracted part parses makes its stage fail, so that the next stage is
\* entered and the response is not an outcome of the failed stage.
C27_ParseOrFailStage ==
  /\ \A reply \in {ev_primary, ev_remote} :
       ExtractedOnly(reply) =>
         /\ llm_rapidapi_try_parse_json(reply.text, reply.obj)
              = [kind |-> "dict", obj |-> ParsedObj(reply)]
         /\ app_rapidapi_try_parse_json(reply.text, reply.obj)
              = [raised |-> FALSE, kind |-> "dict", obj |-> ParsedObj(reply)]
  /\ ExtractedOnly(ev_primary) =>
       /\ ~evaluate_domain_response(ev_primary).raised
       /\ ev_tried = <<"Primary">>
  /\ (ev_primary.call = "ok" /\ Unparseable(ev_primary)) => Tried("LocalLexical")
  /\ (ev_remote.call = "ok" /\ Unparseable(ev_remote)) =>
       /\ Tried("Default")
       /\ ev_pc = "responded" => ev_resp = safe_default

\* ============================================================ the nlp score
\* The similarity value the nlp result carries, if it carries a number.
NlpValue(nlp) ==
  IF nlp.shape # "dict" THEN Absent
  ELSE IF nlp.similarity_score # Absent
  THEN (IF nlp.similarity_score[1].kind = "num" THEN Some(nlp.similarity_score[1].n) ELSE Absent)
  ELSE IF nlp.score # Absent /\ nlp.score[1].kind = "num" THEN Some(nlp.score[1].n)
  ELSE Absent

\* C31: the nlp sub-score is 0.5 when the similarity value is missing or no
\* number; it is the value over 100 when the value is above 1.5 and the value
\* itself otherwise, brought into [0, 1]; in every case it lies in [0, 1].
C31_NlpSubScore ==
  fu_pc \in {"scored", "merged"} =>
    LET v == fu_sub.nlp.v
        val == NlpValue(fu_in.nlp)
    IN
    /\ ~fu_sub.nlp.raised
    /\ v >= 0 /\ v <= ONE
    /\ val = Absent => v = Milli(500)
    /\ val # Absent =>
         LET f == val[1] IN
         /\ f < 0 => v = 0
         /\ (f >= 0 /\ f <= ONE) => v = f
         /\ (f > ONE /\ f <= Milli(1500)) => v = ONE
         /\ (f > Milli(1500) /\ f <= 100 * ONE) => v * 100 = f
         /\ f > 100 * ONE => v = ONE

\* C31 witness: a value between 1 and 1.5 has been taken as a fraction and
\* clamped to 1.
C31_Witness ==
  /\ fu_pc = "scored"
  /\ NlpValue(fu_in.nlp) = Some(Milli(1200))
  /\ fu_sub.nlp = SubScore(ONE)

\* ========================================================= the last resort
\* C32: the result of the last-resort stage has as final_score the nlp
\* similarity value of the request, divided by 100 when it is greater than 1,
\* and 0.5 when the value is missing or no number, whatever the other analysis
\* results and the failed remote reply were; its rating is the band of that
\* score under 0.80 / 0.65 / 0.45.
C32_LastResortFromNlpOnly ==
  (fb_pc \in {"persist", "responded"} /\ fb_tried = FbOrder) =>
    LET val == NlpValue(fb_req.nlp)
        score == fb_result.final_score
    IN
    /\ val = Absent => score = Milli(500)
    /\ val # Absent =>
         /\ val[1] > ONE => score * 100 = val[1]
         /\ val[1] <= ONE => score = val[1]
    /\ fb_result.qualitative_rating =
         (IF 100 * score >= 80 * ONE THEN "Excellent"
          ELSE IF 100 * score >= 65 * ONE THEN "Good"
          ELSE IF 100 * score >= 45 * ONE THEN "Average"
          ELSE "Poor")
    /\ fb_result.feedback = "basic_fallback"
    /\ fb_pc = "responded" =>
         /\ fb_resp.final_score = score
         /\ fb_resp.qualitative_rating = fb_result.qualitative_rating

\* C32 witness: the last resort has answered a request whose similarity value
\* is 72, with 0.72 and Good.
C32_Witness ==
  /\ fb_pc = "responded" /\ fb_tried = FbOrder
  /\ NlpValue(fb_req.nlp) = Some(Milli(72000))
  /\ fb_resp.final_score = Milli(720)
  /\ fb_resp.qualitative_rating = "Good"

\* ===================================================== unknown domains
\* The request of p named, with all three identifiers present, a domain that
\* has no question file.
NamesUnknownDomain(p) ==
  /\ in_raw[p] # NoRaw
  /\ ~missing_identifier(in_raw[p])
  /\ ~domain_file_exists(norm_domain(in_raw[p]))

\* C33: a request naming a domain without question set is answered with a
\* failure, by NextQuestion and by the domain-answer evaluation alike; it is
\* never answered with a successful evaluation.
C33_UnknownDomainFails ==
  /\ \A p \in Procs :
       (pc[p] = "done" /\ req[p].op = "NextQuestion" /\ NamesUnknownDomain(p)) =>
         (~resp[p].success /\ resp[p].status >= 400)
  /\ (ev_pc = "responded" /\ ev_req.domain = "unknown") =>
       (~ev_resp.success /\ ev_resp.status >= 400)

\* ==================================================== missing identifiers
\* The text is empty once the blanks around it are removed.
OnlyBlanks(t) == \A n \in 1..Len(t) : t[n] = Blank
SomeIdentifierMissing(r) ==
  OnlyBlanks(r.email) \/ OnlyBlanks(r.interview_id) \/ OnlyBlanks(r.domain)

\* C34: the step that receives a NextQuestion or Reset request in which
\* email, interview_id or domain is empty after trimming answers it with the
\* 400 input error and leaves the store as it was.
C34_MissingIdentifierRejected ==
  [][\A p \in Procs :
       (/\ pc[p] = "idle" /\ pc'[p] # "idle"
        /\ req'[p].op \in {"NextQuestion", "Reset"}
        /\ SomeIdentifierMissing(in_raw'[p]))
       => (/\ pc'[p] = "done"
           /\ resp'[p] = BadRequest
           /\ store' = store)]_vars

\* C34 witness: a Reset whose interview_id is one blank has been rejected
\* after a request that created a record, and the record is as it was.
C34_Witness ==
  /\ pc[1] = "done" /\ req[1].op = "Reset" /\ resp[1] = ResetResp
  /\ pc[2] = "done" /\ req[2].op = "Reset"
  /\ in_raw[2] = [BaseRaw EXCEPT !.interview_id = <<Blank>>]
  /\ resp[2] = BadRequest
  /\ Len(store) = 1

\* ================================================= the empty question set
\* C35: the step that receives a NextQuestion request for the domain whose
\* question set is empty answers it with the 400 error, and neither that step
\* nor a later one of the request creates or changes a record.
C35_EmptyQuestionSetRejected ==
  [][\A p \in Procs :
       (/\ pc[p] = "idle" /\ pc'[p] # "idle"
        /\ req'[p].op = "NextQuestion"
        /\ Len(questions) = 0
        /\ ~SomeIdentifierMissing(in_raw'[p])
        /\ text_lower(text_strip(in_raw'[p].domain)) = KnownDomain)
       => (/\ pc'[p] = "done"
           /\ resp'[p].status = 400 /\ ~resp'[p].success
           /\ store' = store)]_vars

\* C35 witness: with an empty question set, a NextQuestion request on a
\* record that a Reset created has been rejected, the record left as it was.
C35_Witness ==
  /\ Len(questions) = 0
  /\ pc[1] = "done" /\ req[1].op = "Reset" /\ in_raw[1] = BaseRaw
  /\ pc[2] = "done" /\ req[2].op = "NextQuestion" /\ in_raw[2] = BaseRaw
  /\ resp[2] = BadRequest
  /\ Len(store) = 1
  /\ store[1].current_question = Some(0) /\ store[1].results = Some(<<>>)

\* ====================================================== case of the key
\* The two texts differ in letter case at most.
CaseVariant(a, b) ==
  Len(a) = Len(b) /\ \A n \in 1..Len(a) : lower_char(a[n]) = lower_char(b[n])
SameUpToCase(r1, r2) ==
  /\ CaseVariant(r1.email, r2.email)
  /\ CaseVariant(r1.interview_id, r2.interview_id)
  /\ CaseVariant(r1.domain, r2.domain)

\* C36: two requests whose email, interview_id and domain differ in letter
\* case at most use the same session key, hence address the same record.
C36_KeyIsCaseNormalised ==
  \A p, q \in Procs :
    (/\ pc[p] = "done" /\ pc[q] = "done"
     /\ ~SomeIdentifierMissing(in_raw[p])
     /\ SameUpToCase(in_raw[p], in_raw[q]))
    => req[p].key = req[q].key

\* ===================================================== lazy model handles
\* C37: each model handle is constructed at most once in the process,
\* whatever the order and the interleaving of the requests that need it and
\* whichever loads failed.
C37_HandleBuiltOnce == \A h \in Handles : lz_built[h] <= 1

\* ============================================== Reset against NextQuestion
\* C38: when a Reset on a key has completed, every request that arrived
\* before it has finished and none has arrived after it, the stored
\* current_question of the key is at most 1: a NextQuestion that read the
\* index before the Reset does not bring the old index back.
C38_ResetNotUndone ==
  \A p \in Procs :
    (/\ Quiet
     /\ pc[p] = "done" /\ req[p].op = "Reset" /\ req[p].key # NoKey
     /\ \A q \in Procs : q > p => pc[q] = "idle")
    => \A i \in RecordsOf(req[p].key) : doc_current_question(store[i]) <= 1

\* ========================================== concurrent AppendResult calls
\* The AppendResult calls on the key with the result that have completed.
ARDone(k, r) ==
  {p \in Procs : /\ req[p].op = "AppendResult" /\ req[p].key = k
                 /\ req[p].result = r /\ pc[p] = "done"}

\* How many times the result occurs in the sequence.
Times(r, rs) == Cardinality({n \in 1..Len(rs) : rs[n] = r})

\* C39: without Reset on the key, under any interleaving of AppendResult and
\* NextQuestion calls, the record of the key holds every result as many times
\* as AppendResult calls with that result have completed (once for each
\* call), and no other record of the key holds any: no index update drops or
\* overwrites a result.
C39_EveryAppendKept ==
  \A k \in Keys :
    NoResetOn(k) =>
      \A r \in PerQ :
        /\ Cardinality(ARDone(k, r)) =
             (IF find_one(store, k) = 0 THEN 0
              ELSE Times(r, doc_results(store[find_one(store, k)])))
        /\ \A i \in RecordsOf(k) :
             i # find_one(store, k) => doc_results(store[i]) = <<>>

\* C39 witness: two AppendResult calls and a NextQuestion call on one key
\* have all finished; the record holds both results and the index 1.
C39_Witness ==
  /\ Quiet /\ total >= 1
  /\ \A p \in Procs : pc[p] = "done" /\ req[p].key = "k1"
  /\ req[1].op = "AppendResult" /\ req[2].op = "NextQuestion" /\ req[3].op = "AppendResult"
  /\ req[1].result # req[3].result
  /\ Len(store) = 1
  /\ doc_results(store[1]) = <<req[3].result, req[1].result>>
  /\ store[1].current_question = Some(1)


\* C40: every domain-evaluation and feedback-generation request that has
\* arrived is eventually answered, given that each stage call returns or
\* times out; no stage is entered twice, so a chain makes at most one
\* attempt per stage.
NoStageTwice(tried) ==
  \A i, j \in 1..Len(tried) : tried[i] = tried[j] => i = j

C40_EveryRequestAnswered ==
  /\ [](NoStageTwice(ev_tried) /\ NoStageTwice(fb_tried))
  /\ (ev_pc # "idle") ~> (ev_pc = "responded")
  /\ (fb_pc # "idle") ~> (fb_pc = "responded")

C40_Witness ==
  /\ ev_pc = "responded"
  /\ ev_tried = EvOrder
  /\ ev_primary.text = <<"n">>
  /\ ~ev_lexical.ok
  /\ ev_remote.call = "error"

====
